---------------------------- MODULE Spec2Model ----------------------------
(***************************************************************************)
(* Model of the request-signing and wire-protocol layer of the Mega S4     *)
(* connector (nodes/Mega/GenericFunctions.ts) and of the operation         *)
(* handlers that call it.                                                  *)
(*                                                                         *)
(* Strings whose characters matter (XML text, query names and values,      *)
(* bucket names, object keys) are sequences of one-character strings.      *)
(* Hashes and HMACs are injective symbolic constructors.                   *)
(***************************************************************************)
EXTENDS Integers, Sequences, FiniteSets, TLC

VARIABLES
    pc,         \* position of the current invocation
    inv,        \* the operation handler being run, with its parameters
    call,       \* the request function being run, with its options
    creds,      \* what context.getCredentials returned
    wire,       \* the request descriptor handed to the HTTP transport
    presigned,  \* what generatePresignedUrl computed
    resp,       \* the transport's answer
    reqOut,     \* what the request function returned or threw
    outcome,    \* what the invocation returned or threw to its caller
    httpCount,  \* HTTP requests issued since the caller invoked the operation
    signCount,  \* signatures computed since the caller invoked the operation
    reqHttp     \* HTTP requests issued by the current run of a request function

vars == <<pc, inv, call, creds, wire, presigned, resp, reqOut, outcome,
          httpCount, signCount, reqHttp>>

None == [kind |-> "none"]
NoCall == [fn |-> "none", api |-> "none", options |-> None]
NoInv == [handler |-> "none", params |-> None]

(***************************************************************************)
(* XML documents: sequences of tokens.  A token is an opening tag <n>, a   *)
(* closing tag </n>, a self-closing tag <n/> or one character of text.     *)
(* Text never holds a raw '<' or '>'.                                      *)
(***************************************************************************)
Open(n)  == [k |-> "open", n |-> n]
Close(n) == [k |-> "close", n |-> n]
Self(n)  == [k |-> "self", n |-> n]
Ch(c)    == [k |-> "ch", n |-> c]

\* the text tokens of a character string
Text(s) == [i \in 1..Len(s) |-> Ch(s[i])]

IsWs(tok) == tok.k = "ch" /\ tok.n \in {" ", "\n", "\t"}

RECURSIVE TrimLeft(_)
TrimLeft(s) == IF s # <<>> /\ IsWs(Head(s)) THEN TrimLeft(Tail(s)) ELSE s

RECURSIVE TrimRight(_)
TrimRight(s) ==
    IF s # <<>> /\ IsWs(s[Len(s)]) THEN TrimRight(SubSeq(s, 1, Len(s) - 1)) ELSE s

Trim(s) == TrimRight(TrimLeft(s))

\* s starts with pat at position i
MatchAt(s, i, pat) ==
    /\ i + Len(pat) - 1 <= Len(s)
    /\ \A j \in 1..Len(pat) : s[i + j - 1] = pat[j]

\* String.prototype.replace(/pat/g, rep): leftmost, non-overlapping, one pass
RECURSIVE ReplaceFrom(_, _, _, _)
ReplaceFrom(s, i, pat, rep) ==
    LET ms == {j \in i..Len(s) : MatchAt(s, j, pat)}
    IN IF ms = {} THEN SubSeq(s, i, Len(s))
       ELSE LET p == CHOOSE j \in ms : \A q \in ms : j <= q
            IN SubSeq(s, i, p - 1) \o rep \o ReplaceFrom(s, p + Len(pat), pat, rep)

ReplaceAll(s, pat, rep) == ReplaceFrom(s, 1, pat, rep)

EntLt   == Text(<<"&", "l", "t", ";">>)
EntGt   == Text(<<"&", "g", "t", ";">>)
EntAmp  == Text(<<"&", "a", "m", "p", ";">>)
EntQuot == Text(<<"&", "q", "u", "o", "t", ";">>)
EntApos == Text(<<"&", "a", "p", "o", "s", ";">>)

\* the five chained replaces of parseNode, in the order of the source
DecodeEntities(s) ==
    ReplaceAll(ReplaceAll(ReplaceAll(ReplaceAll(ReplaceAll(s,
        EntLt, Text(<<"<">>)),
        EntGt, Text(<<">">>)),
        EntAmp, Text(<<"&">>)),
        EntQuot, Text(<<"\"">>)),
        EntApos, Text(<<"'">>))

\* JavaScript values: a string, an object (keys in insertion order), an
\* array, a number, a boolean, null and undefined
StrV(s) == [t |-> "str", v |-> s]
ArrV(s) == [t |-> "arr", v |-> s]
ObjV(keys, f) == [t |-> "obj", v |-> f, keys |-> keys]
NumV(n) == [t |-> "num", v |-> n]
BoolV(b) == [t |-> "bool", v |-> b]
EmptyObj == ObjV(<<>>, <<>>)
Undefined == [t |-> "undefined"]
NullV == [t |-> "null"]

\* result[tagName] = value, collapsing repeated names into an array
AddValue(result, tagName, value) ==
    IF tagName \notin DOMAIN result.v
    THEN ObjV(Append(result.keys, tagName), result.v @@ (tagName :> value))
    ELSE IF result.v[tagName].t # "arr"
    THEN ObjV(result.keys, [result.v EXCEPT ![tagName] = ArrV(<<@, value>>)])
    ELSE ObjV(result.keys, [result.v EXCEPT ![tagName] = ArrV(Append(@.v, value))])

\* selfClosingRegex.exec loop: every <n/> of the string, at any depth
RECURSIVE SelfClosingPass(_, _, _)
SelfClosingPass(str, i, result) ==
    IF i > Len(str) THEN result
    ELSE IF str[i].k = "self"
    THEN SelfClosingPass(str, i + 1, AddValue(result, str[i].n, StrV(<<>>)))
    ELSE SelfClosingPass(str, i + 1, result)

\* names the tag-name group of tagRegex can take at an opening token, in
\* backtracking order: the whole name first, then shorter prefixes that are
\* themselves names (the rest of the tag is then taken as attributes)
NameCandidates(n) == IF n = "ErrorResponse" THEN <<"ErrorResponse", "Error">> ELSE <<n>>

\* tokens at which /<name attrs>/ can start; <n/> reads as <n attrs="/">
IsOpener(tok) == tok.k \in {"open", "self"}

\* position of the first </n> after p, 0 if none (lazy content match)
FirstClose(str, p, n) ==
    LET qs == {q \in (p + 1)..Len(str) : str[q] = Close(n)}
    IN IF qs = {} THEN 0 ELSE CHOOSE q \in qs : \A r \in qs : q <= r

\* the match of tagRegex at opener p: <<name, position of the closing tag>>
MatchOpener(str, p) ==
    LET cands == NameCandidates(str[p].n)
        ok == {c \in 1..Len(cands) : FirstClose(str, p, cands[c]) # 0}
    IN IF ~IsOpener(str[p]) \/ ok = {} THEN <<"", 0>>
       ELSE LET c == CHOOSE c \in ok : \A d \in ok : c <= d
            IN <<cands[c], FirstClose(str, p, cands[c])>>

\* hasNestedTags: /<[a-zA-Z0-9_:-]+[^>]*>/.test(content)
HasNestedTags(content) == \E i \in 1..Len(content) : IsOpener(content[i])

RECURSIVE parseNode(_)
RECURSIVE TagPass(_, _, _)

\* tagRegex.exec loop from lastIndex i
TagPass(str, i, acc) ==
    IF i > Len(str) THEN acc
    ELSE LET m == MatchOpener(str, i)
         IN IF m[2] = 0 THEN TagPass(str, i + 1, acc)
            ELSE LET content == Trim(SubSeq(str, i + 1, m[2] - 1))
                     value == IF HasNestedTags(content)
                              THEN parseNode(content)
                              ELSE StrV(DecodeEntities(content))
                 IN TagPass(str, m[2] + 1,
                        [hasChildren |-> TRUE, result |-> AddValue(acc.result, m[1], value)])

parseNode(str) ==
    LET afterSelf == SelfClosingPass(str, 1, EmptyObj)
        hasSelf == \E i \in 1..Len(str) : str[i].k = "self"
        done == TagPass(str, 1, [hasChildren |-> hasSelf, result |-> afterSelf])
    IN IF done.hasChildren THEN done.result ELSE StrV(str)

\* the declaration <?xml ...?> is one token of kind "decl"
Decl == [k |-> "decl", n |-> "xml"]

RECURSIVE StripDecl(_)
StripDecl(s) ==
    IF s = <<>> THEN <<>>
    ELSE IF Head(s) = Decl THEN StripDecl(Tail(s))
    ELSE <<Head(s)>> \o StripDecl(Tail(s))

parseXmlToObject(xml) ==
    IF Trim(xml) = <<>> THEN EmptyObj ELSE parseNode(Trim(StripDecl(xml)))

parseXmlResponseUnguarded(xml) == parseNode(Trim(StripDecl(xml)))

\* async parseXmlResponse: {} for an empty or white-space-only string
parseXmlResponse(xml) ==
    IF Trim(xml) = <<>> THEN EmptyObj ELSE parseXmlToObject(xml)

\* JavaScript property read on a parsed value
Get(val, key) ==
    IF val.t = "obj" /\ key \in DOMAIN val.v THEN val.v[key] ELSE Undefined

\* JavaScript truthiness of a parsed value
Truthy(val) ==
    CASE val.t \in {"undefined", "null"} -> FALSE
      [] val.t = "str" -> val.v # <<>>
      [] val.t = "num" -> val.v # 0
      [] val.t = "bool" -> val.v
      [] OTHER -> TRUE

(***************************************************************************)
(* Character strings: sequences of one-character strings over printable    *)
(* ASCII, ordered by code unit as JavaScript's default sort orders them.   *)
(***************************************************************************)
\* the printable ASCII characters, code 32 upwards (code 96 is spelt out)
Ascii == <<
    " ", "!", "\"", "#", "$", "%", "&", "'", "(", ")", "*", "+",
    ",", "-", ".", "/", "0", "1", "2", "3", "4", "5", "6", "7",
    "8", "9", ":", ";", "<", "=", ">", "?", "@", "A", "B", "C",
    "D", "E", "F", "G", "H", "I", "J", "K", "L", "M", "N", "O",
    "P", "Q", "R", "S", "T", "U", "V", "W", "X", "Y", "Z", "[",
    "\\", "]", "^", "_", "grave", "a", "b", "c", "d", "e", "f", "g",
    "h", "i", "j", "k", "l", "m", "n", "o", "p", "q", "r", "s",
    "t", "u", "v", "w", "x", "y", "z", "{", "|", "}", "~" >>

Code(c) == 31 + (CHOOSE i \in 1..Len(Ascii) : Ascii[i] = c)

UpperAlpha == {Ascii[i] : i \in 34..59}
LowerAlpha == {Ascii[i] : i \in 66..91}
Digits == {Ascii[i] : i \in 17..26}

HexDigits == <<"0", "1", "2", "3", "4", "5", "6", "7", "8", "9", "A", "B", "C", "D", "E", "F">>

\* '%' + charCodeAt(0).toString(16).toUpperCase().padStart(2, '0')
PercentHex(c) == <<"%", HexDigits[(Code(c) \div 16) + 1], HexDigits[(Code(c) % 16) + 1]>>

\* value of two hex digits as a character
HexVal(h) == (CHOOSE i \in 1..16 : HexDigits[i] = h) - 1
IsHex(h) == \E i \in 1..16 : HexDigits[i] = h
FromHex(h1, h2) == Ascii[HexVal(h1) * 16 + HexVal(h2) - 31]

\* a < b in code-unit order
StrLess(a, b) ==
    LET ds == {i \in 1..Len(a) : i <= Len(b) /\ a[i] # b[i]}
    IN IF ds = {} THEN Len(a) < Len(b)
       ELSE LET d == CHOOSE i \in ds : \A j \in ds : i <= j
            IN Code(a[d]) < Code(b[d])

\* Array.prototype.sort() of a list of strings
RECURSIVE InsertSorted(_, _)
InsertSorted(sorted, x) ==
    IF sorted = <<>> THEN <<x>>
    ELSE IF StrLess(x, Head(sorted)) THEN <<x>> \o sorted
    ELSE <<Head(sorted)>> \o InsertSorted(Tail(sorted), x)

RECURSIVE SortStrings(_)
SortStrings(list) ==
    IF list = <<>> THEN <<>> ELSE InsertSorted(SortStrings(SubSeq(list, 1, Len(list) - 1)), list[Len(list)])

\* Array.prototype.join(sep)
RECURSIVE Join(_, _)
Join(list, sep) ==
    IF list = <<>> THEN <<>>
    ELSE IF Len(list) = 1 THEN list[1]
    ELSE list[1] \o sep \o Join(Tail(list), sep)

\* String.prototype.split(sep) for a one-character separator
\* position of the k-th separator of s; 0 before the first, Len(s) + 1
\* after the last
SepAt(s, sep, k) ==
    LET ps == {i \in 1..Len(s) : s[i] = sep}
    IN IF k = 0 THEN 0
       ELSE IF k > Cardinality(ps) THEN Len(s) + 1
       ELSE CHOOSE i \in ps : Cardinality({j \in ps : j < i}) = k - 1

Split(s, sep) ==
    [k \in 1..(Cardinality({i \in 1..Len(s) : s[i] = sep}) + 1) |->
       SubSeq(s, SepAt(s, sep, k - 1) + 1, SepAt(s, sep, k) - 1)]

\* String.prototype.indexOf(c), 1-based, 0 when absent
IndexOf(s, c) ==
    LET is == {i \in 1..Len(s) : s[i] = c}
    IN IF is = {} THEN 0 ELSE CHOOSE i \in is : \A j \in is : i <= j

\* the concatenation of Op(c) over the characters c of s, by halves
RECURSIVE MapChars(_, _)
MapChars(Op(_), s) ==
    IF s = <<>> THEN <<>>
    ELSE IF Len(s) = 1 THEN Op(s[1])
    ELSE MapChars(Op, SubSeq(s, 1, Len(s) \div 2))
         \o MapChars(Op, SubSeq(s, (Len(s) \div 2) + 1, Len(s)))

Unreserved == UpperAlpha \cup LowerAlpha \cup Digits \cup {"_", "-", "~", "."}

\* uriEncode(str, encodeSlash)
uriEncodeChar(c, encodeSlash) ==
    IF c \in Unreserved THEN <<c>>
    ELSE IF c = "/" /\ ~encodeSlash THEN <<c>>
    ELSE PercentHex(c)

uriEncode(str, encodeSlash) ==
    LET Enc(c) == uriEncodeChar(c, encodeSlash) IN MapChars(Enc, str)

\* encodeURIComponent: leaves A-Z a-z 0-9 - _ . ! ~ * ' ( ) unescaped
encodeURIComponentChar(c) ==
    IF c \in UpperAlpha \cup LowerAlpha \cup Digits \cup {"-", "_", ".", "!", "~", "*", "'", "(", ")"}
    THEN <<c>> ELSE PercentHex(c)

encodeURIComponent(str) == MapChars(encodeURIComponentChar, str)

\* URLSearchParams serializer (application/x-www-form-urlencoded)
formEncodeChar(c) ==
    IF c \in UpperAlpha \cup LowerAlpha \cup Digits \cup {"*", "-", ".", "_"} THEN <<c>>
    ELSE IF c = " " THEN <<"+">>
    ELSE PercentHex(c)

formEncode(str) == MapChars(formEncodeChar, str)

\* URLSearchParams parser: '+' is a space, %XX is decoded
RECURSIVE formDecode(_)
formDecode(s) ==
    LET ps == {i \in 1..Len(s) :
                 \/ s[i] = "+"
                 \/ /\ s[i] = "%" /\ i + 2 <= Len(s) /\ IsHex(s[i + 1]) /\ IsHex(s[i + 2])
                    /\ HexVal(s[i + 1]) * 16 + HexVal(s[i + 2]) \in 32..126}
    IN IF ps = {} THEN s
       ELSE LET p == CHOOSE i \in ps : \A j \in ps : i <= j
            IN SubSeq(s, 1, p - 1)
               \o (IF s[p] = "+" THEN <<" ">> \o formDecode(SubSeq(s, p + 1, Len(s)))
                   ELSE <<FromHex(s[p + 1], s[p + 2])>> \o formDecode(SubSeq(s, p + 3, Len(s))))

\* a parameter list is a sequence of <<name, value>> pairs
\* URLSearchParams.toString()
RECURSIVE ParamsToString(_)
ParamsToString(params) ==
    IF params = <<>> THEN <<>>
    ELSE formEncode(params[1][1]) \o <<"=">> \o formEncode(params[1][2])
         \o (IF Len(params) > 1 THEN <<"&">> \o ParamsToString(Tail(params)) ELSE <<>>)

\* one name=value piece of a query string, split at the first '='
ParsePiece(piece) ==
    LET e == IndexOf(piece, "=")
    IN IF e = 0 THEN <<formDecode(piece), <<>>>>
       ELSE <<formDecode(SubSeq(piece, 1, e - 1)), formDecode(SubSeq(piece, e + 1, Len(piece)))>>

\* new URLSearchParams(queryString): empty pieces are skipped
RECURSIVE ParsePieces(_)
ParsePieces(pieces) ==
    IF pieces = <<>> THEN <<>>
    ELSE IF Head(pieces) = <<>> THEN ParsePieces(Tail(pieces))
    ELSE <<ParsePiece(Head(pieces))>> \o ParsePieces(Tail(pieces))

ParseQueryString(qs) == ParsePieces(Split(qs, "&"))

\* String(n) of an integer
RECURSIVE NumToStr(_)
NumToStr(n) ==
    IF n < 0 THEN <<"-">> \o NumToStr(0 - n)
    ELSE IF n < 10 THEN <<Ascii[17 + n]>>
    ELSE NumToStr(n \div 10) \o <<Ascii[17 + (n % 10)]>>

\* the characters of the credential fields and timestamps the model uses
Chars(s) ==
    CASE s = "AKID" -> <<"A", "K", "I", "D">>
      [] s = "SECRET" -> <<"S", "E", "C", "R", "E", "T">>
      [] s = "OTHERSECRET" -> <<"O", "T", "H", "E", "R", "S", "E", "C", "R", "E", "T">>
      [] s = "eu-central-1" -> <<"e", "u", "-", "c", "e", "n", "t", "r", "a", "l", "-", "1">>
      [] s = "ca-west-1" -> <<"c", "a", "-", "w", "e", "s", "t", "-", "1">>
      [] s = "mars-1" -> <<"m", "a", "r", "s", "-", "1">>
      [] s = "20261101" -> <<"2", "0", "2", "6", "1", "1", "0", "1">>
      [] s = "20261102" -> <<"2", "0", "2", "6", "1", "1", "0", "2">>
      [] s = "235959" -> <<"2", "3", "5", "9", "5", "9">>
      [] s = "000000" -> <<"0", "0", "0", "0", "0", "0">>
      [] s = "s3" -> <<"s", "3">>
      [] s = "aws4_request" -> <<"a", "w", "s", "4", "_", "r", "e", "q", "u", "e", "s", "t">>

(***************************************************************************)
(* Input validation                                                        *)
(***************************************************************************)
Valid == [valid |-> TRUE]
Invalid(error) == [valid |-> FALSE, error |-> error]

\* one dot-separated label of bucketNameRegex: [a-z0-9]([a-z0-9-]*[a-z0-9])?
IsBucketLabel(l) ==
    /\ l # <<>>
    /\ l[1] \in LowerAlpha \cup Digits
    /\ l[Len(l)] \in LowerAlpha \cup Digits
    /\ \A i \in 1..Len(l) : l[i] \in LowerAlpha \cup Digits \cup {"-"}

\* the pattern without its label structure: /^[a-z0-9]([a-z0-9.-]*[a-z0-9])?$/
bucketNameRegexWholeName(s) ==
    /\ s # <<>>
    /\ s[1] \in LowerAlpha \cup Digits
    /\ s[Len(s)] \in LowerAlpha \cup Digits
    /\ \A i \in 1..Len(s) : s[i] \in LowerAlpha \cup Digits \cup {"-", "."}

\* /^[a-z0-9]([a-z0-9-]*[a-z0-9])?(\.[a-z0-9]([a-z0-9-]*[a-z0-9])?)*$/
bucketNameRegex(s) ==
    LET labels == Split(s, ".")
    IN \A i \in 1..Len(labels) : IsBucketLabel(labels[i])

\* /^(\d{1,3}\.){3}\d{1,3}$/
ipRegex(s) ==
    LET labels == Split(s, ".")
    IN /\ Len(labels) = 4
       /\ \A i \in 1..4 :
            /\ Len(labels[i]) \in 1..3
            /\ \A j \in 1..Len(labels[i]) : labels[i][j] \in Digits

validateBucketName(bucketName) ==
    IF bucketName = <<>> THEN Invalid("Bucket name cannot be empty")
    ELSE IF Len(bucketName) < 3 \/ Len(bucketName) > 63
    THEN Invalid("Bucket name must be between 3 and 63 characters long")
    ELSE IF ~bucketNameRegex(bucketName)
    THEN Invalid("Bucket name can only contain lowercase letters, numbers, hyphens, and dots. Must start and end with a letter or number.")
    ELSE IF ipRegex(bucketName)
    THEN Invalid("Bucket name cannot be formatted as an IP address")
    ELSE Valid

validateObjectKey(key) ==
    IF key = <<>> THEN Invalid("Object key cannot be empty")
    ELSE IF Len(key) > 1024 THEN Invalid("Object key cannot exceed 1024 characters")
    ELSE IF \E i \in 1..Len(key) : MatchAt(key, i, <<"/", "/">>)
    THEN Invalid("Object key cannot contain consecutive slashes (//)")
    ELSE Valid

(***************************************************************************)
(* XML request bodies (buildXmlFromObject)                                 *)
(***************************************************************************)
\* the five chained replaces of buildNode, in the order of the source
EncodeEntities(s) ==
    ReplaceAll(ReplaceAll(ReplaceAll(ReplaceAll(ReplaceAll(s,
        Text(<<"&">>), EntAmp),
        Text(<<"<">>), EntLt),
        Text(<<">">>), EntGt),
        Text(<<"\"">>), EntQuot),
        Text(<<"'">>), EntApos)

\* key.startsWith('@')
IsAttributeKey(key) == key \in {"@xmlns", "@attributes"}

RECURSIVE buildNode(_, _)
RECURSIVE BuildItems(_, _)
RECURSIVE BuildEntries(_, _)

RECURSIVE BuildItemsReversed(_, _)

BuildItemsReversed(items, nodeName) ==
    IF items = <<>> THEN <<>>
    ELSE BuildItemsReversed(Tail(items), nodeName) \o buildNode(Head(items), nodeName)

\* data.map((item) => buildNode(item, nodeName)).join('')
BuildItems(items, nodeName) ==
    IF items = <<>> THEN <<>>
    ELSE buildNode(Head(items), nodeName) \o BuildItems(Tail(items), nodeName)

\* the loop over Object.entries(data)
BuildEntries(data, keys) ==
    IF keys = <<>> THEN <<>>
    ELSE (IF IsAttributeKey(Head(keys)) THEN <<>> ELSE buildNode(data.v[Head(keys)], Head(keys)))
         \o BuildEntries(data, Tail(keys))

buildNode(data, nodeName) ==
    CASE data.t \in {"null", "undefined"} -> <<Self(nodeName)>>
      [] data.t = "str" ->
           <<Open(nodeName)>> \o EncodeEntities(data.v) \o <<Close(nodeName)>>
      [] data.t = "num" ->
           <<Open(nodeName)>> \o Text(NumToStr(data.v)) \o <<Close(nodeName)>>
      [] data.t = "bool" ->
           <<Open(nodeName)>>
           \o (IF data.v THEN Text(<<"t", "r", "u", "e">>) ELSE Text(<<"f", "a", "l", "s", "e">>))
           \o <<Close(nodeName)>>
      [] data.t = "arr" -> BuildItems(data.v, nodeName)
      [] data.t = "obj" ->
           <<Open(nodeName)>> \o BuildEntries(data, data.keys) \o <<Close(nodeName)>>

buildXmlFromObject(obj, rootName) == <<Decl>> \o buildNode(obj, rootName)

buildXml(obj, rootName) == buildXmlFromObject(obj, rootName)


(***************************************************************************)
(* AWS Signature Version 4, header mode (signAwsRequest)                   *)
(***************************************************************************)
sha256(data) == [fn |-> "sha256", data |-> data]
hmacSha256(key, data) == [fn |-> "hmac", key |-> key, data |-> data]

getSigningKey(secretKey, dateStamp, regionName, serviceName) ==
    hmacSha256(hmacSha256(hmacSha256(hmacSha256(<<"AWS4", secretKey>>, dateStamp),
        regionName), serviceName), "aws4_request")

\* a timestamp is the date and the time of day of `new Date()`
formatAmzDate(now) == now.date \o "T" \o now.time \o "Z"
DateStampOf(now) == now.date

\* header maps and query maps are JavaScript objects: sequences of
\* <<name, value>> pairs in insertion order, names unique
HasKey(obj, name) == \E i \in 1..Len(obj) : obj[i][1] = name

SetKey(obj, name, value) ==
    IF HasKey(obj, name)
    THEN [i \in 1..Len(obj) |-> IF obj[i][1] = name THEN <<name, value>> ELSE obj[i]]
    ELSE Append(obj, <<name, value>>)

Keys(obj) == [i \in 1..Len(obj) |-> obj[i][1]]

GetKey(obj, name) == obj[CHOOSE i \in 1..Len(obj) : obj[i][1] = name][2]

\* { ...a, ...b }
RECURSIVE Spread(_, _)
Spread(a, b) == IF b = <<>> THEN a ELSE Spread(SetKey(a, b[1][1], b[1][2]), Tail(b))

ToLowerChar(c) ==
    IF c \in UpperAlpha THEN <<Ascii[(CHOOSE i \in 1..Len(Ascii) : Ascii[i] = c) + 32]>> ELSE <<c>>

ToLower(str) == MapChars(ToLowerChar, str)

\* a header value is a sequence of pieces: whitespace or opaque content
Ws == [k |-> "ws", v |-> " "]
HV(x) == <<[k |-> "val", v |-> x]>>

\* a trim that leaves the white space at the end of the value
RECURSIVE TrimValueLeading(_)
TrimValueLeading(v) ==
    IF v # <<>> /\ Head(v).k = "ws" THEN TrimValueLeading(Tail(v)) ELSE v

\* String.prototype.trim() of a header value
RECURSIVE TrimValue(_)
TrimValue(v) ==
    IF v # <<>> /\ Head(v).k = "ws" THEN TrimValue(Tail(v))
    ELSE IF v # <<>> /\ v[Len(v)].k = "ws" THEN TrimValue(SubSeq(v, 1, Len(v) - 1))
    ELSE v

\* headers[Object.keys(headers).find((k) => k.toLowerCase() === key)]
FindHeader(headers, lowerKey) ==
    LET is == {i \in 1..Len(headers) : ToLower(headers[i][1]) = lowerKey}
    IN headers[CHOOSE i \in is : \A j \in is : i <= j][2]

HostName == <<"h", "o", "s", "t">>
AmzDateName == <<"x", "-", "a", "m", "z", "-", "d", "a", "t", "e">>
AmzShaName ==
    <<"x", "-", "a", "m", "z", "-", "c", "o", "n", "t", "e", "n", "t", "-", "s", "h", "a", "2", "5", "6">>
AuthorizationName ==
    <<"a", "u", "t", "h", "o", "r", "i", "z", "a", "t", "i", "o", "n">>
ContentLengthName == <<"C", "o", "n", "t", "e", "n", "t", "-", "L", "e", "n", "g", "t", "h">>
ContentTypeName == <<"C", "o", "n", "t", "e", "n", "t", "-", "T", "y", "p", "e">>

\* the canonical query string of the part of the path after the first '?'
CanonicalQueryOf(queryString) ==
    LET params == ParseQueryString(queryString)
        pieces == [i \in 1..Len(params) |->
                     uriEncode(params[i][1], TRUE) \o <<"=">> \o uriEncode(params[i][2], TRUE)]
    IN Join(SortStrings(pieces), <<"&">>)

signAwsRequest(options, credentials, now) ==
    LET amzDate == formatAmzDate(now)
        dateStamp == DateStampOf(now)
        payloadHash == IF options.body # <<>> THEN sha256(options.body) ELSE sha256(<<>>)
        headers == SetKey(SetKey(SetKey(options.headers,
                       HostName, HV(options.host)),
                       AmzDateName, HV(amzDate)),
                       AmzShaName, HV(payloadHash))
        sortedHeaderKeys == SortStrings([i \in 1..Len(headers) |-> ToLower(headers[i][1])])
        canonicalHeaders == [i \in 1..Len(sortedHeaderKeys) |->
                               <<sortedHeaderKeys[i], ":",
                                 TrimValue(FindHeader(headers, sortedHeaderKeys[i]))>>]
        signedHeaders == Join(sortedHeaderKeys, <<";">>)
        queryIndex == IndexOf(options.path, "?")
        canonicalUri == IF queryIndex # 0 THEN SubSeq(options.path, 1, queryIndex - 1)
                        ELSE options.path
        canonicalQueryString ==
            IF queryIndex # 0
            THEN CanonicalQueryOf(SubSeq(options.path, queryIndex + 1, Len(options.path)))
            ELSE <<>>
        canonicalRequest == [method |-> options.method,
                             uri |-> uriEncode(canonicalUri, FALSE),
                             query |-> canonicalQueryString,
                             headers |-> canonicalHeaders,
                             signedHeaders |-> signedHeaders,
                             payloadHash |-> payloadHash]
        credentialScope == <<dateStamp, options.region, options.service, "aws4_request">>
        stringToSign == <<"AWS4-HMAC-SHA256", amzDate, credentialScope, sha256(canonicalRequest)>>
        signingKey == getSigningKey(credentials.secretAccessKey, dateStamp,
                                    options.region, options.service)
        signature == hmacSha256(signingKey, stringToSign)
        authorization == [algorithm |-> "AWS4-HMAC-SHA256",
                          credential |-> <<credentials.accessKeyId, credentialScope>>,
                          signedHeaders |-> signedHeaders,
                          signature |-> signature]
    IN [headers |-> SetKey(headers, AuthorizationName, HV(authorization)),
        canonicalRequest |-> canonicalRequest,
        stringToSign |-> stringToSign]

(***************************************************************************)
(* Endpoints and credentials                                               *)
(***************************************************************************)
KnownRegions == {"eu-central-1", "eu-central-2", "ca-central-1", "ca-west-1"}

getS3Endpoint(region) ==
    IF region \in KnownRegions THEN "s3." \o region \o ".s4.mega.io"
    ELSE "s3.eu-central-1.s4.mega.io"

getIAMEndpoint(region) ==
    IF region \in KnownRegions THEN "iam." \o region \o ".s4.mega.io"
    ELSE "iam.eu-central-1.s4.mega.io"

\* an error thrown: NodeOperationError has no HTTP code, NodeApiError has one
OperationError(message) == [kind |-> "NodeOperationError", message |-> message]

ApiError(api, code, message, status) ==
    [kind |-> "NodeApiError", api |-> api, code |-> code, message |-> message,
     httpCode |-> ToString(status)]

Returned(value) == [kind |-> "return", value |-> value]

IsThrow(o) == o.kind \in {"NodeOperationError", "NodeApiError", "TypeError", "Error"}

\* a credential check that forgets the secret
CredentialsMissingKeyIdOnly(c) == c.accessKeyId = ""

\* getMegaCredentials: "" stands for a field that is absent or empty
CredentialsMissing(c) == c.accessKeyId = "" \/ c.secretAccessKey = ""

CredentialsError == OperationError(<<"Mega S4 credentials are required">>)

\* credentials whose key id field is filled from the secret
getMegaCredentialsSecretAsKeyId(c) ==
    [accessKeyId |-> c.secretAccessKey,
     secretAccessKey |-> c.secretAccessKey,
     region |-> IF c.region # "" THEN c.region ELSE "eu-central-1",
     customEndpoint |-> c.customEndpoint]

getMegaCredentials(c) ==
    [accessKeyId |-> c.accessKeyId,
     secretAccessKey |-> c.secretAccessKey,
     region |-> IF c.region # "" THEN c.region ELSE "eu-central-1",
     customEndpoint |-> c.customEndpoint]


(***************************************************************************)
(* s3ApiRequest and iamApiRequest                                          *)
(***************************************************************************)
\* a query value that is `undefined`
UndefinedValue == <<"undefined">>

\* path = '/' + bucket + '/' + key with each segment encodeURIComponent-ed
S3Path(options) ==
    IF options.bucket # <<>>
    THEN <<"/">> \o options.bucket
         \o (IF options.key # <<>>
             THEN LET segs == Split(options.key, "/")
                  IN <<"/">> \o Join([i \in 1..Len(segs) |-> encodeURIComponent(segs[i])], <<"/">>)
             ELSE <<>>)
    ELSE <<"/">>

\* params.append only for values that are neither undefined nor empty
RECURSIVE AppendParamsSkipEmpty(_, _)
AppendParamsSkipEmpty(query, sortedKeys) ==
    IF sortedKeys = <<>> THEN <<>>
    ELSE LET value == GetKey(query, Head(sortedKeys))
         IN (IF value # UndefinedValue /\ value # <<>>
             THEN <<<<Head(sortedKeys), value>>>> ELSE <<>>)
            \o AppendParamsSkipEmpty(query, Tail(sortedKeys))

\* params.append for every sorted key whose value is not undefined
RECURSIVE AppendParams(_, _)
AppendParams(query, sortedKeys) ==
    IF sortedKeys = <<>> THEN <<>>
    ELSE LET value == GetKey(query, Head(sortedKeys))
         IN (IF value # UndefinedValue THEN <<<<Head(sortedKeys), value>>>> ELSE <<>>)
            \o AppendParams(query, Tail(sortedKeys))

S3QueryString(options) ==
    IF Len(options.query) > 0
    THEN ParamsToString(AppendParams(options.query, SortStrings(Keys(options.query))))
    ELSE <<>>

S3FullPath(options) ==
    IF S3QueryString(options) # <<>>
    THEN S3Path(options) \o <<"?">> \o S3QueryString(options)
    ELSE S3Path(options)

\* Content-Length is the byte length of the body
S3Headers(options) ==
    IF options.body # <<>>
    THEN SetKey(options.headers, ContentLengthName, HV([byteLength |-> options.body]))
    ELSE options.headers

\* an endpoint choice that never looks at the custom endpoint
S3EndpointRegionOnly(credentials) == getS3Endpoint(credentials.region)

\* credentials.customEndpoint || getS3Endpoint(credentials.region)
S3Endpoint(credentials) ==
    IF credentials.customEndpoint # "" THEN credentials.customEndpoint
    ELSE getS3Endpoint(credentials.region)

\* the request descriptor s3ApiRequest hands to httpRequest
S3RequestOptions(options, credentials, now) ==
    LET endpoint == S3Endpoint(credentials)
        signed == signAwsRequest([host |-> endpoint, path |-> S3FullPath(options),
                                  method |-> options.method, service |-> "s3",
                                  region |-> credentials.region,
                                  headers |-> S3Headers(options), body |-> options.body],
                                 credentials, now)
    IN [method |-> options.method,
        host |-> endpoint,
        path |-> S3FullPath(options),
        headers |-> signed.headers,
        body |-> options.body,
        canonicalRequest |-> signed.canonicalRequest,
        stringToSign |-> signed.stringToSign]

\* the form body of an IAM call: Action, Version, then the parameters
IamFormParams(options) ==
    << <<"Action", options.action>>,
       <<"Version", IF options.version # "" THEN options.version ELSE "2010-05-08">> >>
    \o options.params

IamRequestOptions(options, credentials, now) ==
    LET endpoint == getIAMEndpoint(credentials.region)
        body == IamFormParams(options)
        headers == << <<ContentTypeName, HV("application/x-www-form-urlencoded; charset=utf-8")>>,
                      <<ContentLengthName, HV([byteLength |-> body])>> >>
        signed == signAwsRequest([host |-> endpoint, path |-> <<"/">>,
                                  method |-> "POST", service |-> "iam",
                                  region |-> credentials.region,
                                  headers |-> headers, body |-> body],
                                 credentials, now)
    IN [method |-> "POST",
        host |-> endpoint,
        path |-> <<"/">>,
        headers |-> signed.headers,
        body |-> body,
        canonicalRequest |-> signed.canonicalRequest,
        stringToSign |-> signed.stringToSign]

UnknownErrorCode == StrV(Text(<<"UnknownError">>))
PreconditionFailedCode == StrV(Text(<<"PreconditionFailed">>))

\* errorBody || `HTTP ${response.statusCode}`
DefaultErrorMessage(response) ==
    IF response.body # <<>> THEN StrV(response.body)
    ELSE StrV(Text(<<"HTTP ", ToString(response.statusCode)>>))

\* errorBody.includes('<Error>')
IncludesErrorTag(body) == \E i \in 1..Len(body) : body[i] = Open("Error")

OrElse(val, default) == IF Truthy(val) THEN val ELSE default

\* errorInfo of s3ApiRequest: the root <Error> element
S3ErrorInfo(response) ==
    LET parsed == parseXmlResponse(response.body)
        err == Get(parsed, "Error")
    IN IF response.body # <<>> /\ IncludesErrorTag(response.body) /\ Truthy(err)
       THEN [code |-> OrElse(Get(err, "Code"), UnknownErrorCode),
             message |-> OrElse(Get(err, "Message"), StrV(response.body))]
       ELSE [code |-> UnknownErrorCode, message |-> DefaultErrorMessage(response)]

\* errorInfo that keeps the default code even when the document names one
IamErrorInfoNoCode(response) ==
    [code |-> UnknownErrorCode, message |-> DefaultErrorMessage(response)]

\* errorInfo of iamApiRequest: the <Error> child of the root <ErrorResponse>
IamErrorInfo(response) ==
    LET parsed == parseXmlResponse(response.body)
        err == Get(Get(parsed, "ErrorResponse"), "Error")
    IN IF response.body # <<>> /\ IncludesErrorTag(response.body) /\ Truthy(err)
       THEN [code |-> OrElse(Get(err, "Code"), UnknownErrorCode),
             message |-> OrElse(Get(err, "Message"), StrV(response.body))]
       ELSE [code |-> UnknownErrorCode, message |-> DefaultErrorMessage(response)]

NotModifiedResult ==
    ObjV(<<"notModified", "statusCode">>,
         [notModified |-> BoolV(TRUE), statusCode |-> NumV(304)])

\* body.trim().startsWith('<?xml') || body.trim().startsWith('<')
LooksLikeXml(body) == Trim(body) # <<>> /\ Head(Trim(body)).k # "ch"

\* s3ApiRequest without its 412 branch: 412 takes the generic error path
S3HandleResponseNo412(options, response) ==
    IF response.statusCode = 304
    THEN (IF options.returnFullResponse THEN Returned(response)
          ELSE Returned(NotModifiedResult))
    ELSE IF response.statusCode >= 400
    THEN ApiError("S3", S3ErrorInfo(response).code, S3ErrorInfo(response).message,
                  response.statusCode)
    ELSE IF options.returnFullResponse THEN Returned(response)
    ELSE IF LooksLikeXml(response.body) THEN Returned(parseXmlResponse(response.body))
    ELSE Returned(StrV(response.body))

\* what s3ApiRequest does with a response the transport returned
S3HandleResponse(options, response) ==
    IF response.statusCode = 304
    THEN (IF options.returnFullResponse THEN Returned(response)
          ELSE Returned(NotModifiedResult))
    ELSE IF response.statusCode = 412
    THEN ApiError("S3", PreconditionFailedCode,
                  StrV(Text(<<"The specified precondition was not met">>)), 412)
    ELSE IF response.statusCode >= 400
    THEN ApiError("S3", S3ErrorInfo(response).code, S3ErrorInfo(response).message,
                  response.statusCode)
    ELSE IF options.returnFullResponse THEN Returned(response)
    ELSE IF LooksLikeXml(response.body) THEN Returned(parseXmlResponse(response.body))
    ELSE Returned(StrV(response.body))

\* iamApiRequest with the error threshold off by one
IamHandleResponseAbove400(response) ==
    IF response.statusCode > 400
    THEN ApiError("IAM", IamErrorInfo(response).code, IamErrorInfo(response).message,
                  response.statusCode)
    ELSE Returned(parseXmlResponse(response.body))

\* what iamApiRequest does with a response the transport returned
IamHandleResponse(response) ==
    IF response.statusCode >= 400
    THEN ApiError("IAM", IamErrorInfo(response).code, IamErrorInfo(response).message,
                  response.statusCode)
    ELSE Returned(parseXmlResponse(response.body))

\* a catch block that wraps every error, API errors included
CatchRequestErrorWrapAll(error, prefix) ==
    OperationError(<<prefix, error.message>>)

\* the catch block of both request functions
CatchRequestError(error, prefix) ==
    IF error.kind = "NodeApiError" THEN error
    ELSE OperationError(<<prefix, error.message>>)

\* try { ... } catch: r is what the try block returned or threw
TryRequest(r, prefix) == IF IsThrow(r) THEN CatchRequestError(r, prefix) ELSE r


(***************************************************************************)
(* Inputs                                                                  *)
(***************************************************************************)
BucketA == <<"m", "y", "-", "b", "u", "c", "k", "e", "t">>
KeyPlain == <<"f", "o", "l", "d", "e", "r", "/", "f", "i", "l", "e", ".", "t", "x", "t">>
KeySpace == <<"a", " ", "b", "/", "c">>
AclName == <<"a", "c", "l">>
LocationName == <<"l", "o", "c", "a", "t", "i", "o", "n">>
PrefixName == <<"p", "r", "e", "f", "i", "x">>
PartNumberName == <<"p", "a", "r", "t", "N", "u", "m", "b", "e", "r">>
UploadIdName == <<"u", "p", "l", "o", "a", "d", "I", "d">>

NoHeaders == <<>>
NoQuery == <<>>
NoBody == <<>>

S3Options(method, bucket, key, query, headers, body, full) ==
    [method |-> method, bucket |-> bucket, key |-> key, query |-> query,
     headers |-> headers, body |-> body, returnFullResponse |-> full]

\* request options callers pass to s3ApiRequest
S3OptionChoices ==
    { S3Options("GET", <<>>, <<>>, NoQuery, NoHeaders, NoBody, FALSE),
      S3Options("GET", BucketA, <<>>, << <<LocationName, <<>>>> >>, NoHeaders, NoBody, FALSE),
      S3Options("GET", BucketA, KeyPlain, NoQuery, NoHeaders, NoBody, TRUE),
      S3Options("PUT", BucketA, KeySpace, NoQuery,
                << <<ContentTypeName, HV("text/plain")>> >>, <<"d", "a", "t", "a">>, TRUE),
      S3Options("GET", BucketA, KeyPlain,
                << <<PrefixName, <<"a", " ", "b">>>>, <<AclName, <<>>>>,
                   <<UploadIdName, UndefinedValue>> >>, NoHeaders, NoBody, FALSE) }

IamOptions(action, params) == [action |-> action, version |-> "", params |-> params]

IamOptionChoices ==
    { IamOptions("ListPolicies", <<>>),
      IamOptions("DetachUserPolicy", << <<"UserName", "alice">>, <<"PolicyArn", "arn">> >>) }

\* what context.getCredentials can hold; "" is an absent field
CredentialChoices ==
    [accessKeyId : {"AKID", ""}, secretAccessKey : {"SECRET", ""},
     region : {"", "ca-west-1", "mars-1"}, customEndpoint : {"", "s3.example.test"}]

Times == {[date |-> "20261101", time |-> "235959"], [date |-> "20261102", time |-> "000000"]}

Statuses == {200, 204, 301, 304, 400, 403, 404, 412, 500}

ErrorBody(code, message) ==
    <<Open("Error"), Open("Code")>> \o Text(code) \o <<Close("Code"), Open("Message")>>
    \o Text(message) \o <<Close("Message"), Close("Error")>>

\* response bodies: empty, plain text, S3 and IAM error documents, results
Bodies ==
    { <<>>,
      Text(<<"o", "o", "p", "s">>),
      ErrorBody(<<"NoSuchBucket">>, <<"g", "o", "n", "e">>),
      <<Decl>> \o ErrorBody(<<"AccessDenied">>, <<"n", "o">>),
      ErrorBody(<<>>, <<>>),
      <<Open("ErrorResponse")>> \o ErrorBody(<<"NoSuchEntity">>, <<"n", "o", "n", "e">>)
          \o <<Close("ErrorResponse")>>,
      <<Open("Error")>> \o Text(<<"b", "a", "d">>),
      <<Open("LocationConstraint")>> \o Text(<<"e", "u">>) \o <<Close("LocationConstraint")>> }

TransportCauses == {"ECONNREFUSED", "ETIMEDOUT"}

(***************************************************************************)
(* Presigned URLs (generatePresignedUrl)                                   *)
(***************************************************************************)
AmzAlgorithmName == <<"X", "-", "A", "m", "z", "-", "A", "l", "g", "o", "r", "i", "t", "h", "m">>
AmzCredentialName ==
    <<"X", "-", "A", "m", "z", "-", "C", "r", "e", "d", "e", "n", "t", "i", "a", "l">>
AmzDateParam == <<"X", "-", "A", "m", "z", "-", "D", "a", "t", "e">>
AmzExpiresName == <<"X", "-", "A", "m", "z", "-", "E", "x", "p", "i", "r", "e", "s">>
AmzSignedHeadersName ==
    <<"X", "-", "A", "m", "z", "-", "S", "i", "g", "n", "e", "d", "H", "e", "a", "d", "e", "r", "s">>
AmzSignatureName ==
    <<"X", "-", "A", "m", "z", "-", "S", "i", "g", "n", "a", "t", "u", "r", "e">>
AlgorithmValue ==
    <<"A", "W", "S", "4", "-", "H", "M", "A", "C", "-", "S", "H", "A", "2", "5", "6">>

\* the hex digest of a hash or HMAC, one piece of a string
Hex(digest) == [k |-> "hex", n |-> digest]

\* `${dateStamp}/${region}/s3/aws4_request`
ScopeChars(scope) ==
    Join([i \in 1..Len(scope) |-> Chars(scope[i])], <<"/">>)

\* options.contentType is set and not empty
HasContentType(options) ==
    options.contentType # UndefinedValue /\ options.contentType # <<>>

\* the queryParams object, keys in insertion order
PresignQueryParams(options, credentials, now) ==
    << <<AmzAlgorithmName, AlgorithmValue>>,
       <<AmzCredentialName,
         Chars(credentials.accessKeyId) \o <<"/">>
         \o ScopeChars(<<now.date, credentials.region, "s3", "aws4_request">>)>>,
       <<AmzDateParam, Chars(now.date) \o <<"T">> \o Chars(now.time) \o <<"Z">>>>,
       <<AmzExpiresName, NumToStr(options.expiresIn)>>,
       <<AmzSignedHeadersName, HostName>> >>
    \o (IF options.method = "PUT" /\ HasContentType(options)
        THEN << <<ContentTypeName, options.contentType>> >> ELSE <<>>)

\* sorted keys, each `${encodeURIComponent(key)}=${encodeURIComponent(value)}`
PresignCanonicalQuery(queryParams) ==
    LET sortedKeys == SortStrings(Keys(queryParams))
    IN Join([i \in 1..Len(sortedKeys) |->
               encodeURIComponent(sortedKeys[i]) \o <<"=">>
               \o encodeURIComponent(GetKey(queryParams, sortedKeys[i]))], <<"&">>)

\* a URL query that puts the signature in front of the signed parameters
PresignSearchSignatureFirst(canonicalQueryString, signature) ==
    Text(AmzSignatureName \o <<"=">>) \o <<Hex(signature)>>
    \o Text(<<"&">> \o canonicalQueryString)

\* `${canonicalQueryString}&X-Amz-Signature=${signature}`
PresignSearch(canonicalQueryString, signature) ==
    Text(canonicalQueryString \o <<"&">> \o AmzSignatureName \o <<"=">>)
    \o <<Hex(signature)>>

UnsignedPayload == "UNSIGNED-PAYLOAD"

generatePresignedUrl(options, credentials, now) ==
    LET endpoint == S3Endpoint(credentials)
        region == credentials.region
        segs == Split(options.key, "/")
        encodedKey == Join([i \in 1..Len(segs) |-> encodeURIComponent(segs[i])], <<"/">>)
        path == <<"/">> \o options.bucket \o <<"/">> \o encodedKey
        amzDate == formatAmzDate(now)
        dateStamp == DateStampOf(now)
        credentialScope == <<dateStamp, region, "s3", "aws4_request">>
        canonicalQueryString ==
            PresignCanonicalQuery(PresignQueryParams(options, credentials, now))
        canonicalRequest == [method |-> options.method,
                             uri |-> path,
                             query |-> canonicalQueryString,
                             headers |-> << <<HostName, ":", HV(endpoint)>> >>,
                             signedHeaders |-> HostName,
                             payloadHash |-> UnsignedPayload]
        stringToSign == <<"AWS4-HMAC-SHA256", amzDate, credentialScope, sha256(canonicalRequest)>>
        signingKey == getSigningKey(credentials.secretAccessKey, dateStamp, region, "s3")
        signature == hmacSha256(signingKey, stringToSign)
    IN [url |-> [scheme |-> "https", host |-> endpoint, path |-> path,
                 search |-> PresignSearch(canonicalQueryString, signature)],
        canonicalRequest |-> canonicalRequest,
        stringToSign |-> stringToSign,
        signature |-> signature]

(***************************************************************************)
(* Operation handlers                                                      *)
(***************************************************************************)
\* a parameter that holds JSON text: text JSON.parse rejects, or the text of
\* a value
BadJson == [ok |-> FALSE, error |-> "Unexpected token"]
JsonOf(value) == [ok |-> TRUE, value |-> value]

TypeError(message) == [kind |-> "TypeError", message |-> <<message>>]

InvalidBucket(bucketName) ==
    OperationError(<<"Invalid bucket name: ", validateBucketName(bucketName).error>>)

InvalidKey(key) ==
    OperationError(<<"Invalid object key: ", validateObjectKey(key).error>>)

MaxPartNumber == 10000
MaxExpiresIn == 604800

\* partNumber < 1 || partNumber > 10000
PartNumberOutOfRange(partNumber) == partNumber < 1 \/ partNumber > MaxPartNumber

\* a range check that turns the upper bound itself away
ExpiresInOutOfRangeExclusive(expiresIn) == expiresIn < 1 \/ expiresIn >= MaxExpiresIn

\* expiresIn < 1 || expiresIn > 604800
ExpiresInOutOfRange(expiresIn) == expiresIn < 1 \/ expiresIn > MaxExpiresIn

ExpiresInError ==
    OperationError(<<"Expiration time must be between 1 second and 604800 seconds (7 days)">>)

\* the checks of handleUploadPart, in order; None when all pass
UploadPartChecks(p) ==
    IF ~validateBucketName(p.bucketName).valid THEN InvalidBucket(p.bucketName)
    ELSE IF ~validateObjectKey(p.key).valid THEN InvalidKey(p.key)
    ELSE IF p.uploadId = <<>>
    THEN OperationError(<<"Upload ID is required. Get it from Create Multipart Upload operation.">>)
    ELSE IF PartNumberOutOfRange(p.partNumber)
    THEN OperationError(<<"Part number must be between 1 and 10000">>)
    ELSE None

UploadPartRequest(p, body) ==
    [fn |-> "s3ApiRequestRaw", api |-> "s3",
     options |-> [method |-> "PUT", bucket |-> p.bucketName, key |-> p.key,
                  query |-> << <<PartNumberName, NumToStr(p.partNumber)>>,
                               <<UploadIdName, p.uploadId>> >>,
                  headers |-> <<>>, body |-> body, returnFullResponse |-> TRUE]]

\* reading a property of a JSON value: null has none
IsNullish(val) == val.t \in {"null", "undefined"}

\* the loop over the parts: the first part that fails ends it
RECURSIVE CheckEachPart(_)
CheckEachPart(parts) ==
    IF parts = <<>> THEN None
    ELSE IF IsNullish(Head(parts))
    THEN TypeError("Cannot read properties of null (reading 'PartNumber')")
    ELSE IF ~Truthy(Get(Head(parts), "PartNumber")) \/ ~Truthy(Get(Head(parts), "ETag"))
    THEN OperationError(<<"Each part must have PartNumber and ETag">>)
    ELSE CheckEachPart(Tail(parts))

\* the checks of handleCompleteMultipartUpload, in order
CompleteMultipartUploadChecks(p) ==
    IF ~validateBucketName(p.bucketName).valid THEN InvalidBucket(p.bucketName)
    ELSE IF ~validateObjectKey(p.key).valid THEN InvalidKey(p.key)
    ELSE IF p.uploadId = <<>> THEN OperationError(<<"Upload ID is required">>)
    ELSE IF ~p.parts.ok
    THEN OperationError(<<"Invalid parts JSON: ", p.parts.error,
                          ". Expected format: [{\"PartNumber\":1,\"ETag\":\"...\"}]">>)
    ELSE IF p.parts.value.t # "arr" \/ p.parts.value.v = <<>>
    THEN OperationError(<<"Parts must be a non-empty array">>)
    ELSE CheckEachPart(p.parts.value.v)

\* parts.map((p) => ({ PartNumber: p.PartNumber, ETag: p.ETag }))
PartEntries(parts) ==
    [i \in 1..Len(parts) |->
       ObjV(<<"PartNumber", "ETag">>,
            [PartNumber |-> Get(parts[i], "PartNumber"), ETag |-> Get(parts[i], "ETag")])]

CompleteXml(parts) ==
    buildXml(ObjV(<<"CompleteMultipartUpload">>,
                  [CompleteMultipartUpload |->
                     ObjV(<<"Part">>, [Part |-> ArrV(PartEntries(parts))])]),
             "CompleteMultipartUpload")

CompleteMultipartUploadRequest(p) ==
    [fn |-> "s3ApiRequest", api |-> "s3",
     options |-> [method |-> "POST", bucket |-> p.bucketName, key |-> p.key,
                  query |-> << <<UploadIdName, p.uploadId>> >>,
                  headers |-> << <<ContentTypeName, HV("application/xml")>> >>,
                  body |-> CompleteXml(p.parts.value.v),
                  returnFullResponse |-> FALSE]]


\* the checks of handlePutBucketPolicy, in order
PutBucketPolicyChecks(p) ==
    IF ~validateBucketName(p.bucketName).valid THEN InvalidBucket(p.bucketName)
    ELSE IF ~p.policy.ok
    THEN OperationError(<<"Invalid policy JSON: ", p.policy.error,
                          ". Policy must be a valid JSON string or object.">>)
    ELSE IF IsNullish(p.policy.value)
    THEN TypeError("Cannot read properties of null (reading 'Version')")
    ELSE IF ~Truthy(Get(p.policy.value, "Version"))
    THEN OperationError(<<"Policy must contain a \"Version\" field (e.g., \"2012-10-17\")">>)
    ELSE IF ~Truthy(Get(p.policy.value, "Statement")) \/ Get(p.policy.value, "Statement").t # "arr"
    THEN OperationError(<<"Policy must contain a \"Statement\" array">>)
    ELSE None

PolicyName == <<"p", "o", "l", "i", "c", "y">>

\* JSON.stringify(policyObject): the serialised document is one piece
JsonStringify(value) == <<[k |-> "json", n |-> value]>>

PutBucketPolicyRequest(p) ==
    [fn |-> "s3ApiRequest", api |-> "s3",
     options |-> [method |-> "PUT", bucket |-> p.bucketName, key |-> <<>>,
                  query |-> << <<PolicyName, <<>>>> >>,
                  headers |-> << <<ContentTypeName, HV("application/json")>> >>,
                  body |-> JsonStringify(p.policy.value),
                  returnFullResponse |-> FALSE]]

\* the checks of handleGetPresignedUrl and handleGetPresignedUploadUrl
PresignedUrlChecks(p) ==
    IF ~validateBucketName(p.bucketName).valid THEN InvalidBucket(p.bucketName)
    ELSE IF ~validateObjectKey(p.key).valid THEN InvalidKey(p.key)
    ELSE IF ExpiresInOutOfRange(p.expiresIn) THEN ExpiresInError
    ELSE None

PresignedUrlRequest(p, method) ==
    [fn |-> "generatePresignedUrl", api |-> "presign",
     options |-> [bucket |-> p.bucketName, key |-> p.key, method |-> method,
                  expiresIn |-> p.expiresIn,
                  contentType |-> IF method = "PUT" THEN p.additionalFields.contentType
                                  ELSE UndefinedValue]]

\* response.headers['etag']
HeaderOf(headers, name) ==
    IF HasKey(headers, name) THEN StrV(GetKey(headers, name)) ELSE Undefined

\* formatBytes for sizes below 1024, where the unit index is 0
formatBytes(bytes) ==
    IF bytes = 0 THEN <<"0", " ", "B", "y", "t", "e", "s">>
    ELSE NumToStr(bytes) \o <<" ", "B", "y", "t", "e", "s">>

\* Array.isArray(x) ? x : [x]
AsArray(val) == IF val.t = "arr" THEN val ELSE ArrV(<<val>>)

\* what a handler returns once its request function returned value
HandlerJson(i, value) ==
    CASE i.handler = "handleUploadPart" ->
           [success |-> TRUE, bucket |-> i.params.bucketName, key |-> i.params.key,
            uploadId |-> i.params.uploadId, partNumber |-> i.params.partNumber,
            etag |-> HeaderOf(value.headers, "etag")]
      [] i.handler = "handleCompleteMultipartUpload" ->
           LET result == Get(value, "CompleteMultipartUploadResult")
           IN [success |-> TRUE,
               location |-> Get(result, "Location"),
               bucket |-> OrElse(Get(result, "Bucket"), StrV(Text(i.params.bucketName))),
               key |-> OrElse(Get(result, "Key"), StrV(Text(i.params.key))),
               etag |-> Get(result, "ETag"),
               totalParts |-> Len(i.params.parts.value.v)]
      [] i.handler = "handleDeleteMultipleObjects" ->
           LET result == Get(value, "DeleteResult")
               deleted == AsArray(OrElse(Get(result, "Deleted"), ArrV(<<>>)))
               errors == AsArray(OrElse(Get(result, "Error"), ArrV(<<>>)))
           IN [success |-> TRUE, bucketName |-> i.params.bucketName,
               deleted |-> deleted, errors |-> errors,
               deletedCount |-> Len(deleted.v), errorCount |-> Len(errors.v),
               message |-> <<"Deleted ", Len(deleted.v), " objects from '",
                             i.params.bucketName, "'">>]
      [] i.handler = "handlePutObject" ->
           LET body == IF i.params.binaryData THEN i.binary.buffer ELSE i.params.textData
           IN [success |-> TRUE, bucketName |-> i.params.bucketName,
               objectKey |-> i.params.objectKey,
               etag |-> IF HasKey(value.headers, "etag")
                        THEN StrV(ReplaceAll(GetKey(value.headers, "etag"),
                                             Text(<<"\"">>), <<>>))
                        ELSE Undefined,
               versionId |-> HeaderOf(value.headers, "x-amz-version-id"),
               size |-> Len(body), sizeFormatted |-> formatBytes(Len(body)),
               message |-> <<"Object '", i.params.objectKey,
                             "' uploaded successfully to '", i.params.bucketName, "'">>]
      [] i.handler = "handlePutBucketPolicy" ->
           [success |-> TRUE, bucket |-> i.params.bucketName]
      [] i.handler = "handleDetachUserPolicy" ->
           [success |-> TRUE, userName |-> i.params.userName,
            policyArn |-> i.params.policyArn,
            message |-> <<"Policy '", i.params.policyArn, "' detached from user '",
                          i.params.userName, "' successfully">>]
      [] i.handler = "handleDetachGroupPolicy" ->
           [success |-> TRUE, groupName |-> i.params.groupName,
            policyArn |-> i.params.policyArn,
            message |-> <<"Policy '", i.params.policyArn, "' detached from group '",
                          i.params.groupName, "' successfully">>]
      [] i.handler = "handleDeleteBucketPolicy" ->
           [success |-> TRUE, bucket |-> i.params.bucketName,
            message |-> <<"Bucket policy has been removed from '", i.params.bucketName,
                          "'">>]
      [] i.handler = "handleGetPresignedUrl" ->
           [success |-> TRUE, url |-> value, bucket |-> i.params.bucketName,
            key |-> i.params.key, expiresIn |-> i.params.expiresIn]
      [] i.handler = "handleGetPresignedUploadUrl" ->
           [success |-> TRUE, url |-> value, bucket |-> i.params.bucketName,
            key |-> i.params.key, expiresIn |-> i.params.expiresIn,
            contentType |-> i.params.additionalFields.contentType]

\* the characters of a token string, in pieces
RECURSIVE TokenPieces(_)
TokenPieces(s) ==
    IF s = <<>> THEN <<>>
    ELSE (CASE Head(s).k = "ch" -> <<Head(s).n>>
            [] Head(s).k = "open" -> <<"<", Head(s).n, ">">>
            [] Head(s).k = "close" -> <<"</", Head(s).n, ">">>
            [] Head(s).k = "self" -> <<"<", Head(s).n, "/>">>
            [] OTHER -> <<"<?xml?>">>)
         \o TokenPieces(Tail(s))

\* `${val}` of a decoded value, in pieces
RECURSIVE PiecesOf(_)
PiecesOf(val) ==
    CASE val.t = "str" -> TokenPieces(val.v)
      [] val.t = "obj" -> <<"[object Object]">>
      [] val.t = "arr" -> Join([j \in 1..Len(val.v) |-> PiecesOf(val.v[j])], <<",">>)
      [] OTHER -> <<>>

\* error.message of what a request function throws, in pieces:
\* `S3 API Error (${errorInfo.code}): ${errorInfo.message}` for an API error
ErrorMessage(error) ==
    IF error.kind = "NodeApiError"
    THEN <<error.api, " API Error (">> \o PiecesOf(error.code) \o <<"): ">>
         \o PiecesOf(error.message)
    ELSE error.message

\* errorMessage.includes(marker), the marker being one piece
Includes(message, marker) == \E j \in 1..Len(message) : message[j] = marker

\* a catch block that passes every error on
HandlerCatchRethrow(i, error) == error

\* the catch block of a handler around its request: the detach handlers and
\* handleDeleteBucketPolicy answer some errors with a result, every other
\* handler has no catch block
HandlerCatch(i, error) ==
    IF /\ i.handler = "handleDetachUserPolicy"
       /\ Includes(ErrorMessage(error), "NoSuchEntity")
    THEN Returned([success |-> TRUE, userName |-> i.params.userName,
                   policyArn |-> i.params.policyArn,
                   message |-> <<"Policy '", i.params.policyArn,
                                 "' was not attached to user '", i.params.userName,
                                 "' (already detached or never attached)">>])
    ELSE IF /\ i.handler = "handleDetachGroupPolicy"
            /\ Includes(ErrorMessage(error), "NoSuchEntity")
    THEN Returned([success |-> TRUE, groupName |-> i.params.groupName,
                   policyArn |-> i.params.policyArn,
                   message |-> <<"Policy '", i.params.policyArn,
                                 "' was not attached to group '", i.params.groupName,
                                 "' (already detached or never attached)">>])
    ELSE IF /\ i.handler = "handleDeleteBucketPolicy"
            /\ \/ Includes(ErrorMessage(error), "NoSuchBucketPolicy")
               \/ Includes(ErrorMessage(error), "404")
    THEN Returned([success |-> TRUE, bucket |-> i.params.bucketName,
                   message |-> <<"No policy was set on bucket '", i.params.bucketName,
                                 "' (already removed or never existed)">>])
    ELSE error

\* what the invocation gives its caller when its request function ended with r
HandlerResult(i, r) ==
    IF i.handler = "none" THEN r
    ELSE IF IsThrow(r) THEN HandlerCatch(i, r)
    ELSE Returned(HandlerJson(i, r.value))

\* handler parameters
BucketIp == <<"1", "0", ".", "0", ".", "0", ".", "1">>
BucketUpper == <<"M", "y", "_", "B", "u", "c", "k", "e", "t">>
KeyDoubleSlash == <<"a", "/", "/", "b">>
UploadIdA == <<"u", "1">>
TextPlain == <<"t", "e", "x", "t", "/", "p", "l", "a", "i", "n">>
ETagA == Text(<<"\"", "e", "1", "\"">>)

PartOf(partNumber, etag) ==
    ObjV(<<"PartNumber", "ETag">>, [PartNumber |-> NumV(partNumber), ETag |-> StrV(etag)])

UploadPartParams ==
    [bucketName : {BucketA, BucketIp}, key : {KeyPlain, KeyDoubleSlash},
     uploadId : {UploadIdA, <<>>}, partNumber : {0, 1, MaxPartNumber, MaxPartNumber + 1}]

\* what getBinaryDataBuffer finds under the binary property
BinaryChoices == {[present |-> FALSE], [present |-> TRUE, buffer |-> <<"d", "a", "t", "a">>]}

PartsChoices ==
    { BadJson,
      JsonOf(NullV),
      JsonOf(ArrV(<<>>)),
      JsonOf(PartOf(1, ETagA)),
      JsonOf(ArrV(<<NullV>>)),
      JsonOf(ArrV(<<PartOf(1, ETagA), ObjV(<<"PartNumber">>, [PartNumber |-> NumV(2)])>>)),
      JsonOf(ArrV(<<PartOf(0, ETagA)>>)),
      JsonOf(ArrV(<<PartOf(1, ETagA), PartOf(2, Text(<<"e", "&", "2">>))>>)) }

CompleteMultipartUploadParams ==
    [bucketName : {BucketA, <<>>}, key : {KeyPlain, <<>>},
     uploadId : {UploadIdA, <<>>}, parts : PartsChoices]

PolicyVersion == StrV(Text(<<"2", "0", "1", "2", "-", "1", "0", "-", "1", "7">>))

PolicyChoices ==
    { BadJson,
      JsonOf(NullV),
      JsonOf(StrV(Text(<<"x">>))),
      JsonOf(ObjV(<<"Statement">>, [Statement |-> ArrV(<<>>)])),
      JsonOf(ObjV(<<"Version", "Statement">>,
                  [Version |-> PolicyVersion, Statement |-> EmptyObj])),
      JsonOf(ObjV(<<"Version", "Statement">>,
                  [Version |-> PolicyVersion, Statement |-> ArrV(<<EmptyObj>>)])) }

PutBucketPolicyParams == [bucketName : {BucketA, BucketUpper}, policy : PolicyChoices]

ExpiresInChoices == {0, 1, 3600, MaxExpiresIn, MaxExpiresIn + 1}

PresignedUrlParams ==
    [bucketName : {BucketA, BucketUpper}, key : {KeySpace, <<>>},
     expiresIn : ExpiresInChoices]

PresignedUploadUrlParams ==
    [bucketName : {BucketA, BucketUpper}, key : {KeySpace, <<>>},
     expiresIn : ExpiresInChoices,
     additionalFields : [contentType : {UndefinedValue, TextPlain}]]

\* response headers: none, or an ETag
ResponseHeaderChoices == {<<>>, << <<"etag", ETagA>> >>}

(***************************************************************************)
(* The state machine: one invocation at a time                             *)
(***************************************************************************)
Init ==
    /\ pc = "idle"
    /\ inv = NoInv
    /\ call = NoCall
    /\ creds = None
    /\ wire = None
    /\ presigned = None
    /\ resp = None
    /\ reqOut = None
    /\ outcome = None
    /\ httpCount = 0
    /\ signCount = 0
    /\ reqHttp = 0

\* a caller invokes s3ApiRequest; it awaits getMegaCredentials
CallS3ApiRequest ==
    /\ pc = "idle"
    /\ \E o \in S3OptionChoices :
         call' = [fn |-> "s3ApiRequest", api |-> "s3", options |-> o]
    /\ pc' = "creds"
    /\ UNCHANGED <<inv, creds, wire, presigned, resp, reqOut, outcome,
                   httpCount, signCount, reqHttp>>

\* a caller invokes iamApiRequest; it awaits getMegaCredentials
CallIamApiRequest ==
    /\ pc = "idle"
    /\ \E o \in IamOptionChoices :
         call' = [fn |-> "iamApiRequest", api |-> "iam", options |-> o]
    /\ pc' = "creds"
    /\ UNCHANGED <<inv, creds, wire, presigned, resp, reqOut, outcome,
                   httpCount, signCount, reqHttp>>

\* a handler starts with parameters p: its checks run, in order; a failed
\* check ends the invocation, otherwise the handler goes on at position next
StartHandler(handler, p, checks, next) ==
    /\ pc = "idle"
    /\ inv' = [handler |-> handler, params |-> p]
    /\ IF checks.kind # "none"
       THEN /\ outcome' = checks
            /\ pc' = "done"
       ELSE /\ outcome' = outcome
            /\ pc' = next
    /\ UNCHANGED <<creds, wire, presigned, resp, reqOut, httpCount, signCount, reqHttp>>

\* handleUploadPart up to its await of getBinaryDataBuffer
HandleUploadPart ==
    \E p \in UploadPartParams :
      /\ StartHandler("handleUploadPart", p, UploadPartChecks(p), "binary")
      /\ call' = call

\* getBinaryDataBuffer resolves with the buffer, or throws when the item has
\* no binary data; with the buffer the handler calls s3ApiRequestRaw
GetBinaryData ==
    /\ pc = "binary"
    /\ \E d \in BinaryChoices :
         IF d.present
         THEN /\ call' = UploadPartRequest(inv.params, d.buffer)
              /\ pc' = "creds"
              /\ outcome' = outcome
         ELSE /\ outcome' = OperationError(<<"This operation expects binary data">>)
              /\ pc' = "done"
              /\ call' = call
    /\ UNCHANGED <<inv, creds, wire, presigned, resp, reqOut, httpCount, signCount, reqHttp>>

\* handleCompleteMultipartUpload up to its await of s3ApiRequest
HandleCompleteMultipartUpload ==
    \E p \in CompleteMultipartUploadParams :
      LET checks == CompleteMultipartUploadChecks(p)
      IN /\ StartHandler("handleCompleteMultipartUpload", p, checks, "creds")
         /\ call' = IF checks.kind = "none" THEN CompleteMultipartUploadRequest(p) ELSE call

\* handlePutBucketPolicy up to its await of s3ApiRequest
HandlePutBucketPolicy ==
    \E p \in PutBucketPolicyParams :
      LET checks == PutBucketPolicyChecks(p)
      IN /\ StartHandler("handlePutBucketPolicy", p, checks, "creds")
         /\ call' = IF checks.kind = "none" THEN PutBucketPolicyRequest(p) ELSE call

\* handleGetPresignedUrl up to its await of generatePresignedUrl
HandleGetPresignedUrl ==
    \E p \in PresignedUrlParams :
      LET checks == PresignedUrlChecks(p)
      IN /\ StartHandler("handleGetPresignedUrl", p, checks, "creds")
         /\ call' = IF checks.kind = "none" THEN PresignedUrlRequest(p, "GET") ELSE call

\* handleGetPresignedUploadUrl up to its await of generatePresignedUrl
HandleGetPresignedUploadUrl ==
    \E p \in PresignedUploadUrlParams :
      LET checks == PresignedUrlChecks(p)
      IN /\ StartHandler("handleGetPresignedUploadUrl", p, checks, "creds")
         /\ call' = IF checks.kind = "none" THEN PresignedUrlRequest(p, "PUT") ELSE call

\* the request function ended with result r; the handler that awaited it
\* returns its result or lets the error through
Finish(r) ==
    /\ reqOut' = r
    /\ outcome' = HandlerResult(inv, r)
    /\ pc' = "done"

\* credentials arrive; the request is built, signed and handed to httpRequest
S3Send ==
    /\ pc = "creds" /\ call.api = "s3"
    /\ \E c \in CredentialChoices, now \in Times :
         /\ creds' = c
         /\ IF CredentialsMissing(c)
            THEN /\ Finish(CredentialsError)
                 /\ UNCHANGED <<wire, httpCount, signCount, reqHttp>>
            ELSE /\ wire' = S3RequestOptions(call.options, getMegaCredentials(c), now)
                 /\ signCount' = signCount + 1
                 /\ httpCount' = httpCount + 1
                 /\ reqHttp' = reqHttp + 1
                 /\ pc' = "await"
                 /\ UNCHANGED <<reqOut, outcome>>
    /\ UNCHANGED <<inv, call, presigned, resp>>

IamSend ==
    /\ pc = "creds" /\ call.api = "iam"
    /\ \E c \in CredentialChoices, now \in Times :
         /\ creds' = c
         /\ IF CredentialsMissing(c)
            THEN /\ Finish(CredentialsError)
                 /\ UNCHANGED <<wire, httpCount, signCount, reqHttp>>
            ELSE /\ wire' = IamRequestOptions(call.options, getMegaCredentials(c), now)
                 /\ signCount' = signCount + 1
                 /\ httpCount' = httpCount + 1
                 /\ reqHttp' = reqHttp + 1
                 /\ pc' = "await"
                 /\ UNCHANGED <<reqOut, outcome>>
    /\ UNCHANGED <<inv, call, presigned, resp>>

\* generatePresignedUrl: credentials arrive, the URL is computed and returned
PresignSign ==
    /\ pc = "creds" /\ call.api = "presign"
    /\ \E c \in CredentialChoices, now \in Times :
         /\ creds' = c
         /\ IF CredentialsMissing(c)
            THEN /\ Finish(CredentialsError)
                 /\ UNCHANGED <<presigned, signCount>>
            ELSE /\ presigned' = generatePresignedUrl(call.options, getMegaCredentials(c), now)
                 /\ signCount' = signCount + 1
                 /\ Finish(Returned(presigned'.url))
    /\ UNCHANGED <<inv, call, wire, resp, httpCount, reqHttp>>

\* httpRequest resolves with a response (ignoreHttpStatusErrors is set)
S3Respond ==
    /\ pc = "await" /\ call.api = "s3"
    /\ \E st \in Statuses, b \in Bodies, h \in ResponseHeaderChoices :
         /\ resp' = [kind |-> "response", statusCode |-> st, body |-> b, headers |-> h]
         /\ Finish(TryRequest(S3HandleResponse(call.options, resp'),
                              "Mega S4 operation failed: "))
    /\ UNCHANGED <<inv, call, creds, wire, presigned, httpCount, signCount, reqHttp>>

IamRespond ==
    /\ pc = "await" /\ call.api = "iam"
    /\ \E st \in Statuses, b \in Bodies, h \in ResponseHeaderChoices :
         /\ resp' = [kind |-> "response", statusCode |-> st, body |-> b, headers |-> h]
         /\ Finish(TryRequest(IamHandleResponse(resp'),
                              "Mega S4 IAM operation failed: "))
    /\ UNCHANGED <<inv, call, creds, wire, presigned, httpCount, signCount, reqHttp>>

\* a transport failure that is retried: the request is issued again
TransportFailRetry ==
    /\ pc = "await"
    /\ httpCount < 3
    /\ \E cause \in TransportCauses :
         resp' = [kind |-> "failure", message |-> cause]
    /\ httpCount' = httpCount + 1
    /\ reqHttp' = reqHttp + 1
    /\ UNCHANGED <<pc, inv, call, creds, wire, presigned, reqOut, outcome, signCount>>

\* httpRequest rejects: no response was received
TransportFail ==
    /\ pc = "await"
    /\ \E cause \in TransportCauses :
         /\ resp' = [kind |-> "failure", message |-> cause]
         /\ Finish(TryRequest([kind |-> "Error", message |-> cause],
                      IF call.api = "s3" THEN "Mega S4 operation failed: "
                      ELSE "Mega S4 IAM operation failed: "))
    /\ UNCHANGED <<inv, call, creds, wire, presigned, httpCount, signCount, reqHttp>>

\* the caller takes the result; the next invocation starts afresh
Done ==
    /\ pc = "done"
    /\ pc' = "idle"
    /\ inv' = NoInv
    /\ call' = NoCall
    /\ creds' = None
    /\ wire' = None
    /\ presigned' = None
    /\ resp' = None
    /\ reqOut' = None
    /\ outcome' = None
    /\ httpCount' = 0
    /\ signCount' = 0
    /\ reqHttp' = 0

Next ==
    \/ CallS3ApiRequest
    \/ CallIamApiRequest
    \/ HandleUploadPart
    \/ GetBinaryData
    \/ HandleCompleteMultipartUpload
    \/ HandlePutBucketPolicy
    \/ HandleGetPresignedUrl
    \/ HandleGetPresignedUploadUrl
    \/ S3Send
    \/ IamSend
    \/ PresignSign
    \/ S3Respond
    \/ IamRespond
    \/ TransportFail
    \/ Done

Spec == Init /\ [][Next]_vars


(***************************************************************************)
(* Claims                                                                  *)
(***************************************************************************)
GotResponse == resp.kind = "response"
S3Got == GotResponse /\ call.api = "s3"
IamGot == GotResponse /\ call.api = "iam"
ErrorPrefix == IF call.api = "s3" THEN "Mega S4 operation failed: "
               ELSE "Mega S4 IAM operation failed: "

\* C1: for every response s3ApiRequest receives, 304 gives a non-error
\* result (the not-modified object, or the full response when
\* returnFullResponse is set), 412 raises an API error with code
\* PreconditionFailed and HTTP code 412 whatever the body says, every other
\* status >= 400 raises an API error with that status, and no status below
\* 400 raises an error.
C1_StatusClasses ==
    S3Got =>
      /\ resp.statusCode = 304 =>
           reqOut = Returned(IF call.options.returnFullResponse THEN resp
                             ELSE NotModifiedResult)
      /\ resp.statusCode = 412 =>
           /\ reqOut.kind = "NodeApiError"
           /\ reqOut.code = PreconditionFailedCode
           /\ reqOut.httpCode = "412"
      /\ (resp.statusCode >= 400 /\ resp.statusCode # 412) =>
           /\ reqOut.kind = "NodeApiError"
           /\ reqOut.httpCode = ToString(resp.statusCode)
      /\ resp.statusCode < 400 => reqOut.kind = "return"

\* a 412 whose body names another error code still raises PreconditionFailed
C1_Witness ==
    /\ S3Got /\ resp.statusCode = 412
    /\ resp.body = ErrorBody(<<"NoSuchBucket">>, <<"g", "o", "n", "e">>)
    /\ reqOut.kind = "NodeApiError" /\ reqOut.code = PreconditionFailedCode

ErrorSamples ==
    { <<<<"NoSuchBucket">>, <<"g", "o", "n", "e">>>>,
      <<<<"AccessDenied">>, <<"n", "o">>>>,
      <<<<"NoSuchEntity">>, <<"n", "o", "n", "e">>>> }

\* the body holds an <Error> element with Code c and Message m somewhere
ContainsError(body, c, m) == \E i \in 1..Len(body) : MatchAt(body, i, ErrorBody(c, m))

\* the <Error> element is the root element of the body
RootError(body, c, m) == Trim(StripDecl(body)) = ErrorBody(c, m)

\* the <Error> element is a child of the root <ErrorResponse> element
WrappedError(body, c, m) ==
    LET doc == Trim(StripDecl(body))
    IN /\ Len(doc) >= 2
       /\ doc[1] = Open("ErrorResponse")
       /\ doc[Len(doc)] = Close("ErrorResponse")
       /\ MatchAt(doc, 2, ErrorBody(c, m))

NoErrorElement(body) == ~IncludesErrorTag(body)

\* C2 as stated: a response with status >= 400 whose body contains an
\* <Error> element with Code c and Message m raises an API error carrying
\* c, m and the status; without an <Error> element the message is the raw
\* body, or 'HTTP {status}' when the body is empty.
C2_AsStated ==
    (GotResponse /\ resp.statusCode >= 400) =>
      /\ \A e \in ErrorSamples :
           ContainsError(resp.body, e[1], e[2]) =>
             /\ reqOut.kind = "NodeApiError"
             /\ reqOut.code = StrV(Text(e[1]))
             /\ reqOut.message = StrV(Text(e[2]))
             /\ reqOut.httpCode = ToString(resp.statusCode)
      /\ NoErrorElement(resp.body) =>
             /\ reqOut.kind = "NodeApiError"
             /\ reqOut.message = DefaultErrorMessage(resp)

\* C2 amended: leaving aside status 412 on s3ApiRequest, the error carries
\* c, m and the status when the <Error> element sits where the function
\* looks for it: the root element for s3ApiRequest, a child of the root
\* <ErrorResponse> for iamApiRequest; an <Error> element found elsewhere
\* leaves code UnknownError with the raw body as message; without an
\* <Error> element the message is the raw body, or 'HTTP {status}' when the
\* body is empty.
C2_ErrorExtraction ==
    (GotResponse /\ resp.statusCode >= 400 /\ ~(call.api = "s3" /\ resp.statusCode = 412)) =>
      /\ reqOut.kind = "NodeApiError"
      /\ reqOut.httpCode = ToString(resp.statusCode)
      /\ \A e \in ErrorSamples :
           /\ ((call.api = "s3" /\ RootError(resp.body, e[1], e[2]))
                \/ (call.api = "iam" /\ WrappedError(resp.body, e[1], e[2]))) =>
                /\ reqOut.code = StrV(Text(e[1]))
                /\ reqOut.message = StrV(Text(e[2]))
           /\ ((call.api = "iam" /\ RootError(resp.body, e[1], e[2]))
                \/ (call.api = "s3" /\ WrappedError(resp.body, e[1], e[2]))) =>
                /\ reqOut.code = UnknownErrorCode
                /\ reqOut.message = StrV(resp.body)
      /\ NoErrorElement(resp.body) =>
           /\ reqOut.code = UnknownErrorCode
           /\ reqOut.message = DefaultErrorMessage(resp)

\* an IAM 404 whose <ErrorResponse> holds NoSuchEntity raises that code
C2_Witness ==
    /\ IamGot /\ resp.statusCode = 404
    /\ WrappedError(resp.body, <<"NoSuchEntity">>, <<"n", "o", "n", "e">>)
    /\ reqOut.kind = "NodeApiError"
    /\ reqOut.code = StrV(Text(<<"NoSuchEntity">>))

\* C3 as stated: every response whose status is not 2xx, other than 304,
\* is raised as an API error; none is returned as a successful result.
C3_AsStated ==
    (GotResponse /\ resp.statusCode \notin 200..299 /\ resp.statusCode # 304) =>
      reqOut.kind = "NodeApiError"

\* C3 amended: every response whose status is >= 400 is raised by
\* s3ApiRequest and by iamApiRequest as an API error carrying code, message
\* and status code, and none of them is returned as a successful result;
\* a response with a status below 400 (3xx included) is returned.
C3_ErrorStatuses ==
    GotResponse =>
      /\ resp.statusCode >= 400 =>
           /\ reqOut.kind = "NodeApiError"
           /\ reqOut.httpCode = ToString(resp.statusCode)
           /\ reqOut.code.t = "str" /\ reqOut.code.v # <<>>
           /\ reqOut.message.t = "str" /\ reqOut.message.v # <<>>
      /\ resp.statusCode < 400 => reqOut.kind = "return"

\* iamApiRequest got a 400 with an empty body and raised 'HTTP 400'
C3_Witness ==
    /\ IamGot /\ resp.statusCode = 400 /\ resp.body = <<>>
    /\ reqOut.kind = "NodeApiError"
    /\ reqOut.message = StrV(Text(<<"HTTP ", "400">>))

\* the error the response handling of the called function raised
RaisedForResponse ==
    IF call.api = "s3" THEN S3HandleResponse(call.options, resp)
    ELSE IamHandleResponse(resp)

\* C4: a transport failure (no response) raises an operation error that
\* wraps the cause's message and has no HTTP status code; every error raised
\* for a received response has the response's status code; an API error
\* raised while handling a response reaches the caller unchanged.
C4_TransportVersusApi ==
    /\ resp.kind = "failure" =>
         /\ reqOut = OperationError(<<ErrorPrefix, resp.message>>)
         /\ "httpCode" \notin DOMAIN reqOut
    /\ (GotResponse /\ IsThrow(reqOut)) =>
         /\ reqOut.kind = "NodeApiError"
         /\ "httpCode" \in DOMAIN reqOut
         /\ reqOut.httpCode = ToString(resp.statusCode)
         /\ reqOut = RaisedForResponse

\* both kinds of failure are seen: a refused connection on the IAM API
C4_Witness ==
    /\ call.api = "iam" /\ resp.kind = "failure" /\ resp.message = "ECONNREFUSED"
    /\ reqOut.kind = "NodeOperationError"

RequestFailed ==
    \/ resp.kind = "failure"
    \/ GotResponse /\ resp.statusCode >= 400

\* C5: one run of s3ApiRequest or iamApiRequest issues at most one HTTP
\* request, and when that request fails (no response, or a status >= 400)
\* the run ends by raising an error: no retry, no swallowed failure.
C5_NoRetryNoSwallow ==
    /\ reqHttp <= 1
    /\ RequestFailed => (reqHttp = 1 /\ IsThrow(reqOut) /\ pc \in {"done", "idle"})

\* a server error answered the one request and was raised
C5_Witness ==
    /\ GotResponse /\ resp.statusCode = 500 /\ reqHttp = 1 /\ reqOut.kind = "NodeApiError"

CredsRead == creds # None

\* C8 as stated: when the secret access key or the region is absent the
\* request fails with a precondition error, before any canonical request is
\* built and before any HTTP request.
C8_AsStated ==
    (CredsRead /\ (creds.secretAccessKey = "" \/ creds.region = "")) =>
      /\ reqOut = CredentialsError
      /\ signCount = 0 /\ httpCount = 0

\* C8 amended: when the secret access key or the access key id is absent
\* the request fails with a precondition error before anything is signed or
\* sent; an absent region is no failure: the region defaults to
\* eu-central-1 and the request is signed for it and sent.
C8_CredentialPrecondition ==
    CredsRead =>
      /\ (creds.secretAccessKey = "" \/ creds.accessKeyId = "") =>
           /\ reqOut = CredentialsError
           /\ wire = None /\ presigned = None /\ signCount = 0 /\ httpCount = 0
      /\ (creds.secretAccessKey # "" /\ creds.accessKeyId # "" /\ creds.region = "") =>
           /\ signCount = 1
           /\ IF call.api = "presign"
              THEN /\ presigned # None
                   /\ presigned.stringToSign[3][2] = "eu-central-1"
                   /\ \E h \in {"s3.eu-central-1.s4.mega.io", creds.customEndpoint} :
                        presigned.url.host = h
              ELSE /\ wire # None /\ httpCount = 1
                   /\ wire.stringToSign[3][2] = "eu-central-1"
                   /\ \E h \in {"s3.eu-central-1.s4.mega.io", "iam.eu-central-1.s4.mega.io",
                                creds.customEndpoint} : wire.host = h

\* the secret is absent, the key id is not: nothing was signed or sent
C8_Witness ==
    /\ CredsRead /\ creds.secretAccessKey = "" /\ creds.accessKeyId # ""
    /\ reqOut = CredentialsError /\ signCount = 0 /\ httpCount = 0

InSeq(x, s) == \E i \in 1..Len(s) : s[i] = x

\* the part of a request path after its first '?'
SearchOf(path) ==
    IF IndexOf(path, "?") = 0 THEN <<>>
    ELSE SubSeq(path, IndexOf(path, "?") + 1, Len(path))

HandlerRan == inv.handler # "none"

\* a parts list the handler can use: a non-empty array of objects that each
\* have a PartNumber and an ETag
WellFormedParts(parts) ==
    /\ parts.ok
    /\ parts.value.t = "arr"
    /\ parts.value.v # <<>>
    /\ \A i \in 1..Len(parts.value.v) :
         /\ parts.value.v[i].t = "obj"
         /\ Truthy(Get(parts.value.v[i], "PartNumber"))
         /\ Truthy(Get(parts.value.v[i], "ETag"))

\* a policy document the handler can use: an object with a Version and a
\* Statement array
WellFormedPolicy(policy) ==
    /\ policy.ok
    /\ policy.value.t = "obj"
    /\ Truthy(Get(policy.value, "Version"))
    /\ Get(policy.value, "Statement").t = "arr"

BadBucket(p) == ~validateBucketName(p.bucketName).valid
BadKey(p) == ~validateObjectKey(p.key).valid

\* the handler's parameters fail one of the input checks the handler is to make
InputInvalid ==
    LET p == inv.params
    IN CASE inv.handler = "handleUploadPart" ->
              BadBucket(p) \/ BadKey(p) \/ p.uploadId = <<>> \/ p.partNumber \notin 1..10000
         [] inv.handler = "handleCompleteMultipartUpload" ->
              BadBucket(p) \/ BadKey(p) \/ p.uploadId = <<>> \/ ~WellFormedParts(p.parts)
         [] inv.handler = "handlePutBucketPolicy" ->
              BadBucket(p) \/ ~WellFormedPolicy(p.policy)
         [] inv.handler \in {"handleGetPresignedUrl", "handleGetPresignedUploadUrl"} ->
              BadBucket(p) \/ BadKey(p) \/ p.expiresIn \notin 1..604800
         [] OTHER -> FALSE

\* the first thing wrong with the input is a null where an object is read:
\* a null policy document, or a null entry of the parts list
NullDocument ==
    LET p == inv.params
    IN CASE inv.handler = "handlePutBucketPolicy" ->
              ~BadBucket(p) /\ p.policy.ok /\ p.policy.value.t = "null"
         [] inv.handler = "handleCompleteMultipartUpload" ->
              /\ ~BadBucket(p) /\ ~BadKey(p) /\ p.uploadId # <<>>
              /\ p.parts.ok /\ p.parts.value.t = "arr"
              /\ \E i \in 1..Len(p.parts.value.v) :
                   /\ p.parts.value.v[i].t = "null"
                   /\ \A j \in 1..(i - 1) :
                        /\ p.parts.value.v[j].t = "obj"
                        /\ Truthy(Get(p.parts.value.v[j], "PartNumber"))
                        /\ Truthy(Get(p.parts.value.v[j], "ETag"))
         [] OTHER -> FALSE

NothingSignedOrSent ==
    /\ creds = None /\ wire = None /\ presigned = None
    /\ signCount = 0 /\ httpCount = 0

\* C6 as stated: whenever a handler's input fails one of the input checks
\* (bucket name, object key, upload id, part number, parts list, policy
\* document, expiry range), the handler raises a validation error and
\* nothing has been signed or sent.
C6_AsStated ==
    (HandlerRan /\ InputInvalid) =>
      /\ outcome.kind = "NodeOperationError"
      /\ NothingSignedOrSent

\* C6, the part the code keeps: whenever a handler's input fails one of the
\* input checks the invocation has ended with an error and nothing has been
\* signed or sent; the error is a validation error, except that a null
\* policy document or a null entry of the parts list gives a TypeError.
C6_ValidationBeforeSigning ==
    (HandlerRan /\ InputInvalid) =>
      /\ pc = "done"
      /\ NothingSignedOrSent
      /\ outcome.kind = (IF NullDocument THEN "TypeError" ELSE "NodeOperationError")

\* part number 10001 was turned away before the binary data was read
C6_Witness ==
    /\ inv.handler = "handleUploadPart"
    /\ ~BadBucket(inv.params) /\ ~BadKey(inv.params) /\ inv.params.uploadId # <<>>
    /\ inv.params.partNumber = 10001
    /\ outcome = OperationError(<<"Part number must be between 1 and 10000">>)
    /\ NothingSignedOrSent

\* a null policy document ends the handler with a TypeError
C6_NullPolicy ==
    /\ inv.handler = "handlePutBucketPolicy"
    /\ NullDocument
    /\ outcome.kind = "TypeError"

PresignChecked ==
    /\ inv.handler \in {"handleGetPresignedUrl", "handleGetPresignedUploadUrl"}
    /\ ~BadBucket(inv.params) /\ ~BadKey(inv.params)

\* C7: on both presigned-URL operations an expiresIn below 1 or above 604800
\* is rejected with the expiry error before credentials are read or anything
\* is signed; every expiresIn from 1 to 604800 is passed on to
\* generatePresignedUrl, which signs a URL with X-Amz-Expires set to it.
C7_ExpiresInBounds ==
    PresignChecked =>
      /\ (inv.params.expiresIn < 1 \/ inv.params.expiresIn > 604800) =>
           /\ pc = "done" /\ outcome = ExpiresInError
           /\ NothingSignedOrSent
      /\ inv.params.expiresIn \in 1..604800 =>
           /\ outcome # ExpiresInError
           /\ call.fn = "generatePresignedUrl"
           /\ call.options.expiresIn = inv.params.expiresIn
           /\ (pc = "done" /\ ~CredentialsMissing(creds)) =>
                /\ outcome.kind = "return"
                /\ signCount = 1
                /\ InSeq(AmzExpiresName \o <<"=">> \o NumToStr(inv.params.expiresIn),
                         Split(presigned.canonicalRequest.query, "&"))

\* the upload operation accepted the largest expiry and returned a URL
C7_Witness ==
    /\ inv.handler = "handleGetPresignedUploadUrl"
    /\ inv.params.expiresIn = 604800
    /\ pc = "done" /\ outcome.kind = "return"
    /\ InSeq(AmzExpiresName \o <<"=", "6", "0", "4", "8", "0", "0">>,
             Split(presigned.canonicalRequest.query, "&"))

\* C9: every query parameter of an s3ApiRequest call whose value is the
\* empty string appears as 'name=' in the canonical query string that is
\* signed and in the query of the request URL.
C9_EmptyValueKept ==
    (call.api = "s3" /\ wire # None) =>
      \A i \in 1..Len(call.options.query) :
        call.options.query[i][2] = <<>> =>
          /\ InSeq(uriEncode(call.options.query[i][1], TRUE) \o <<"=">>,
                   Split(wire.canonicalRequest.query, "&"))
          /\ InSeq(formEncode(call.options.query[i][1]) \o <<"=">>,
                   Split(SearchOf(wire.path), "&"))

\* acl is empty, prefix is 'a b', uploadId is undefined: acl= is signed and sent
C9_Witness ==
    /\ call.api = "s3" /\ wire # None
    /\ HasKey(call.options.query, AclName)
    /\ GetKey(call.options.query, AclName) = <<>>
    /\ wire.canonicalRequest.query
         = AclName \o <<"=", "&">> \o PrefixName \o <<"=", "a", "%", "2", "0", "b">>
    /\ SearchOf(wire.path) = AclName \o <<"=", "&">> \o PrefixName \o <<"=", "a", "+", "b">>

\* names of the parameters of a query string
ParamNames(qs) ==
    LET pieces == Split(qs, "&")
    IN {SubSeq(pieces[i], 1, IndexOf(pieces[i], "=") - 1) : i \in 1..Len(pieces)}

\* C10: the canonical query string of a presigned URL holds X-Amz-Algorithm,
\* X-Amz-Credential, X-Amz-Date, X-Amz-Expires and X-Amz-SignedHeaders=host;
\* the signature is computed over the canonical request with that query
\* string, the host header and UNSIGNED-PAYLOAD; the query of the returned
\* URL is that query string followed by &X-Amz-Signature=<signature>.
C10_PresignedQuerySigned ==
    presigned # None =>
      LET cr == presigned.canonicalRequest
          search == presigned.url.search
          n == Len(search)
          c == getMegaCredentials(creds)
      IN /\ {AmzAlgorithmName, AmzCredentialName, AmzDateParam, AmzExpiresName,
             AmzSignedHeadersName} \subseteq ParamNames(cr.query)
         /\ InSeq(AmzSignedHeadersName \o <<"=">> \o HostName, Split(cr.query, "&"))
         /\ cr.signedHeaders = HostName
         /\ cr.headers = << <<HostName, ":", HV(presigned.url.host)>> >>
         /\ cr.payloadHash = "UNSIGNED-PAYLOAD"
         /\ presigned.stringToSign[4] = sha256(cr)
         /\ presigned.signature
              = hmacSha256(getSigningKey(c.secretAccessKey, presigned.stringToSign[3][1],
                                         c.region, "s3"),
                           presigned.stringToSign)
         /\ n > 0 /\ search[n].k = "hex" /\ search[n].n = presigned.signature
         /\ SubSeq(search, 1, n - 1)
              = Text(cr.query \o <<"&">> \o AmzSignatureName \o <<"=">>)
         /\ reqOut = Returned(presigned.url)

\* an upload URL with a content type: Content-Type is signed with the rest
C10_Witness ==
    /\ presigned # None
    /\ inv.handler = "handleGetPresignedUploadUrl"
    /\ InSeq(ContentTypeName \o <<"=", "t", "e", "x", "t", "%", "2", "F", "p", "l", "a", "i", "n">>,
             Split(presigned.canonicalRequest.query, "&"))
    /\ presigned.url.search[Len(presigned.url.search)].k = "hex"

(***************************************************************************)
(* Concurrent invocations: several request functions of one caller in      *)
(* flight at once.  JavaScript runs an invocation from one await to the    *)
(* next without interruption, so invocations interleave at their awaits.   *)
(* In this specification every per-invocation variable is a function of    *)
(* the invocation, and inv holds the caller's objects that the invocations *)
(* are handed by reference: the header map and the credentials object.     *)
(***************************************************************************)
Invocations == {1, 2}

\* options.headers is a reference to the caller's header map
CallerHeaders == "callerHeaders"

CallerHeaderChoices == {NoHeaders, << <<ContentTypeName, HV("text/plain")>> >>}

CallerCredentialChoices ==
    {c \in CredentialChoices :
        ~CredentialsMissing(c) /\ c.region # "mars-1" /\ c.customEndpoint = ""}

ConcurrentCalls ==
    { [fn |-> "s3ApiRequest", api |-> "s3",
       options |-> S3Options("PUT", BucketA, KeySpace, NoQuery, CallerHeaders,
                             <<"d", "a", "t", "a">>, TRUE)],
      [fn |-> "s3ApiRequest", api |-> "s3",
       options |-> S3Options("GET", BucketA, KeyPlain, NoQuery, CallerHeaders, NoBody, FALSE)],
      [fn |-> "iamApiRequest", api |-> "iam", options |-> IamOptions("ListPolicies", <<>>)],
      [fn |-> "generatePresignedUrl", api |-> "presign",
       options |-> [bucket |-> BucketA, key |-> KeyPlain, method |-> "GET",
                    expiresIn |-> 3600, contentType |-> UndefinedValue]] }

\* signing that writes host, x-amz-date and authorization into the map it was given
HeadersAfterSigningInPlace(callerHeaders, signedHeaders) == signedHeaders

\* the caller's header map once s3ApiRequest has signed: both s3ApiRequest
\* and signAwsRequest write to a copy, { ...options.headers }
HeadersAfterSigning(callerHeaders, signedHeaders) == callerHeaders

\* the options of invocation i with the caller's header map read through
\* the reference
OptionsOf(c, callerHeaders) ==
    IF c.api = "s3" THEN [c.options EXCEPT !.headers = callerHeaders] ELSE c.options

ConcInit ==
    /\ pc = [i \in Invocations |-> "idle"]
    /\ \E h \in CallerHeaderChoices, c \in CallerCredentialChoices :
         inv = [handler |-> "caller",
                params |-> [headers |-> h, credentials |-> c,
                            given |-> [headers |-> h, credentials |-> c]]]
    /\ call = [i \in Invocations |-> NoCall]
    /\ creds = [i \in Invocations |-> None]
    /\ wire = [i \in Invocations |-> None]
    /\ presigned = [i \in Invocations |-> None]
    /\ resp = [i \in Invocations |-> None]
    /\ reqOut = [i \in Invocations |-> None]
    /\ outcome = [i \in Invocations |-> None]
    /\ httpCount = 0
    /\ signCount = 0
    /\ reqHttp = [i \in Invocations |-> 0]

\* the caller starts invocation i, which awaits getMegaCredentials
ConcCall(i) ==
    /\ pc[i] = "idle"
    /\ \E c \in ConcurrentCalls : call' = [call EXCEPT ![i] = c]
    /\ pc' = [pc EXCEPT ![i] = "creds"]
    /\ UNCHANGED <<inv, creds, wire, presigned, resp, reqOut, outcome,
                   httpCount, signCount, reqHttp>>

\* invocation i resumes with the credentials: it reads the clock, builds and
\* signs its request, and awaits httpRequest or returns its URL
ConcSign(i) ==
    /\ pc[i] = "creds"
    /\ \E now \in Times :
         LET c == getMegaCredentials(inv.params.credentials)
             o == OptionsOf(call[i], inv.params.headers)
         IN /\ creds' = [creds EXCEPT ![i] = [credentials |-> inv.params.credentials,
                                               now |-> now]]
            /\ signCount' = signCount + 1
            /\ IF call[i].api = "presign"
               THEN /\ presigned' = [presigned EXCEPT ![i] = generatePresignedUrl(o, c, now)]
                    /\ reqOut' = [reqOut EXCEPT ![i] = Returned(presigned'[i].url)]
                    /\ outcome' = [outcome EXCEPT ![i] = reqOut'[i]]
                    /\ pc' = [pc EXCEPT ![i] = "done"]
                    /\ UNCHANGED <<inv, wire, httpCount, reqHttp>>
               ELSE /\ wire' = [wire EXCEPT ![i] =
                                  IF call[i].api = "s3" THEN S3RequestOptions(o, c, now)
                                  ELSE IamRequestOptions(o, c, now)]
                    /\ inv' = IF call[i].api = "s3"
                              THEN [inv EXCEPT !.params.headers =
                                      HeadersAfterSigning(@, wire'[i].headers)]
                              ELSE inv
                    /\ httpCount' = httpCount + 1
                    /\ reqHttp' = [reqHttp EXCEPT ![i] = 1]
                    /\ pc' = [pc EXCEPT ![i] = "await"]
                    /\ UNCHANGED <<presigned, reqOut, outcome>>
    /\ UNCHANGED <<call, resp>>

ConcStatuses == {200, 403}
ConcBodies == {<<>>, ErrorBody(<<"AccessDenied">>, <<"n", "o">>)}

\* httpRequest of invocation i resolves
ConcRespond(i) ==
    /\ pc[i] = "await"
    /\ \E st \in ConcStatuses, b \in ConcBodies :
         /\ resp' = [resp EXCEPT ![i] = [kind |-> "response", statusCode |-> st,
                                         body |-> b, headers |-> <<>>]]
         /\ reqOut' = [reqOut EXCEPT ![i] =
                         IF call[i].api = "s3"
                         THEN TryRequest(S3HandleResponse(call[i].options, resp'[i]),
                                         "Mega S4 operation failed: ")
                         ELSE TryRequest(IamHandleResponse(resp'[i]),
                                         "Mega S4 IAM operation failed: ")]
         /\ outcome' = [outcome EXCEPT ![i] = reqOut'[i]]
    /\ pc' = [pc EXCEPT ![i] = "done"]
    /\ UNCHANGED <<inv, call, creds, wire, presigned, httpCount, signCount, reqHttp>>

ConcNext ==
    \/ \E i \in Invocations : ConcCall(i)
    \/ \E i \in Invocations : ConcSign(i)
    \/ \E i \in Invocations : ConcRespond(i)

ConcSpec == ConcInit /\ [][ConcNext]_vars

\* what invocation i produces when it runs alone on the objects the caller
\* made, with the credentials and the timestamp it read
AloneSigned(i) ==
    LET c == getMegaCredentials(inv.params.given.credentials)
        o == OptionsOf(call[i], inv.params.given.headers)
        now == creds[i].now
    IN CASE call[i].api = "s3" -> S3RequestOptions(o, c, now)
         [] call[i].api = "iam" -> IamRequestOptions(o, c, now)
         [] call[i].api = "presign" -> generatePresignedUrl(o, c, now)

\* C11: in every interleaving of s3ApiRequest, iamApiRequest and
\* generatePresignedUrl invocations, the caller's header map and credentials
\* object stay as the caller made them, and the signed request or URL of each
\* invocation is the one it produces alone from the same inputs at the same
\* timestamp.
C11_NoInterference ==
    /\ inv.params.headers = inv.params.given.headers
    /\ inv.params.credentials = inv.params.given.credentials
    /\ \A i \in Invocations :
         pc[i] \in {"await", "done"} =>
           IF call[i].api = "presign"
           THEN /\ presigned[i] = AloneSigned(i)
                /\ reqOut[i] = Returned(AloneSigned(i).url)
           ELSE wire[i] = AloneSigned(i)

\* two s3ApiRequest invocations on one non-empty header map are in flight
\* together, signed at different times
C11_Witness ==
    /\ inv.handler = "caller"
    /\ inv.params.headers # <<>>
    /\ \A i \in Invocations : pc[i] = "await" /\ call[i].api = "s3"
    /\ creds[1].now # creds[2].now
    /\ call[1].options.method # call[2].options.method

\* what httpRequest is handed: method, host and path of the URL, headers, body
SentRequest(w) ==
    [method |-> w.method, host |-> w.host, path |-> w.path, headers |-> w.headers,
     body |-> w.body]

AuthorizationOf(w) == GetKey(w.headers, AuthorizationName)[1].v

\* a sent request with the signature value of its authorization header blanked
MaskedRequest(w) ==
    [SentRequest(w) EXCEPT !.headers =
        SetKey(@, AuthorizationName, HV([AuthorizationOf(w) EXCEPT !.signature = "masked"]))]

\* a presigned URL without the signature value that ends it
MaskedUrl(u) == [u EXCEPT !.search = SubSeq(@, 1, Len(@) - 1)]

\* a secret that differs from the one in the credentials
OtherSecret == "OTHERSECRET"

\* the credentials read, with another secret in them
OtherCredentials == getMegaCredentials([creds EXCEPT !.secretAccessKey = OtherSecret])

\* the characters of a presigned URL's query that are plain text
PlainChars(search) ==
    LET idx == {i \in 1..Len(search) : search[i].k = "ch"}
    IN [i \in 1..Len(search) |-> IF i \in idx THEN search[i].n ELSE "#"]

IsSubstring(pat, s) == \E i \in 1..Len(s) : MatchAt(s, i, pat)

\* C12: the secret access key is in no output.  The request handed to the
\* transport and the presigned URL are, but for the signature value, the
\* same under any other secret; the secret is neither the credential of the
\* authorization header nor a substring of the presigned URL; the signature
\* is the HMAC keyed by the key derived from the secret; a returned result
\* or a raised error is a function of the response and the inputs alone.
C12_SecretConfined ==
    (creds # None /\ ~CredentialsMissing(creds)) =>
      /\ wire # None =>
           /\ \E now \in Times :
                MaskedRequest(wire)
                  = MaskedRequest(IF call.api = "s3"
                                  THEN S3RequestOptions(call.options, OtherCredentials, now)
                                  ELSE IamRequestOptions(call.options, OtherCredentials, now))
           /\ AuthorizationOf(wire).credential[1] = creds.accessKeyId
           /\ AuthorizationOf(wire).credential[1] # creds.secretAccessKey
           /\ AuthorizationOf(wire).signature
                = hmacSha256(getSigningKey(creds.secretAccessKey, wire.stringToSign[3][1],
                                           wire.stringToSign[3][2], wire.stringToSign[3][3]),
                             wire.stringToSign)
      /\ presigned # None =>
           /\ \E now \in Times :
                MaskedUrl(presigned.url)
                  = MaskedUrl(generatePresignedUrl(call.options, OtherCredentials, now).url)
           /\ ~IsSubstring(Chars(creds.secretAccessKey), PlainChars(presigned.url.search))
           /\ reqOut = Returned(presigned.url)
      /\ (pc = "done" /\ resp # None) =>
           reqOut = IF resp.kind = "failure"
                    THEN OperationError(<<ErrorPrefix, resp.message>>)
                    ELSE IF call.api = "s3"
                    THEN S3HandleResponse(call.options, resp)
                    ELSE IamHandleResponse(resp)
      /\ (pc = "done" /\ outcome.kind = "NodeOperationError") =>
           \A j \in 1..Len(outcome.message) : outcome.message[j] # creds.secretAccessKey

\* a request signed with the secret was sent and answered with an error
C12_Witness ==
    /\ creds # None /\ creds.secretAccessKey = "SECRET"
    /\ wire # None /\ pc = "done" /\ reqOut.kind = "NodeApiError"
    /\ AuthorizationOf(wire).signature.fn = "hmac"

\* the hostname of a service in the region of the credentials; a region that
\* is none of the four known ones is served from eu-central-1
RegionHost(service) ==
    LET region == getMegaCredentials(creds).region
    IN service \o "." \o (IF region \in KnownRegions THEN region ELSE "eu-central-1")
       \o ".s4.mega.io"

\* the request went to hostname h: h is the host of the URL and the host
\* header that was signed
AddressedTo(h) ==
    /\ wire.host = h
    /\ GetKey(wire.headers, HostName) = HV(h)
    /\ InSeq(<<HostName, ":", HV(h)>>, wire.canonicalRequest.headers)

\* the presigned URL points at hostname h and its signature covers that host
PresignedFor(h) ==
    /\ presigned.url.host = h
    /\ presigned.canonicalRequest.headers = << <<HostName, ":", HV(h)>> >>

\* C13 as stated: requests to either API go to the region-derived hostname,
\* and a custom endpoint in the credentials replaces that hostname for both
\* APIs.
C13_AsStated ==
    /\ wire # None =>
         AddressedTo(IF creds.customEndpoint # "" THEN creds.customEndpoint
                     ELSE RegionHost(call.api))
    /\ presigned # None =>
         PresignedFor(IF creds.customEndpoint # "" THEN creds.customEndpoint
                      ELSE RegionHost("s3"))

\* C13 amended: object-storage requests and presigned URLs go to the custom
\* endpoint when the credentials carry one and to the region-derived S3
\* hostname otherwise; identity/policy requests always go to the
\* region-derived IAM hostname, whatever custom endpoint is configured.
C13_Endpoints ==
    /\ (wire # None /\ call.api = "s3") =>
         AddressedTo(IF creds.customEndpoint # "" THEN creds.customEndpoint
                     ELSE RegionHost("s3"))
    /\ (wire # None /\ call.api = "iam") => AddressedTo(RegionHost("iam"))
    /\ presigned # None =>
         PresignedFor(IF creds.customEndpoint # "" THEN creds.customEndpoint
                      ELSE RegionHost("s3"))

\* an identity/policy request made with a custom endpoint configured went
\* to the IAM hostname of the region
C13_Witness ==
    /\ wire # None /\ call.api = "iam"
    /\ creds.customEndpoint = "s3.example.test" /\ creds.region = "ca-west-1"
    /\ wire.host = "iam.ca-west-1.s4.mega.io"

(***************************************************************************)
(* The XML codec on its own: parseXmlResponse applied to documents, and    *)
(* buildXml applied to structures with its output decoded again.           *)
(***************************************************************************)
XmlNames == {"Item", "Key"}
RootName == "Root"

\* element trees: a self-closing tag, an element holding text, an element
\* holding elements
SelfTag(n) == [n |-> n, kind |-> "self"]
Leaf(n, text) == [n |-> n, kind |-> "text", text |-> text]
Elem(n, kids) == [n |-> n, kind |-> "elem", kids |-> kids]

RECURSIVE Render(_)
RECURSIVE RenderAll(_)

\* the document text of an element tree
Render(e) ==
    CASE e.kind = "self" -> <<Self(e.n)>>
      [] e.kind = "text" -> <<Open(e.n)>> \o Text(e.text) \o <<Close(e.n)>>
      [] e.kind = "elem" -> <<Open(e.n)>> \o RenderAll(e.kids) \o <<Close(e.n)>>

RenderAll(kids) ==
    IF kids = <<>> THEN <<>> ELSE Render(Head(kids)) \o RenderAll(Tail(kids))

LeafTexts == {<<"a">>, <<"b">>}

Leaves ==
    {SelfTag(n) : n \in XmlNames} \cup {Leaf(n, t) : n \in XmlNames, t \in LeafTexts}

Branches ==
    {Elem(n, <<l>>) : n \in XmlNames, l \in Leaves}
    \cup {Elem(n, <<l1, l2>>) : n \in XmlNames, l1 \in Leaves, l2 \in Leaves}

\* well-formed documents: one root element, children up to two levels deep
RootTrees ==
    {Elem(RootName, <<e>>) : e \in Leaves \cup Branches}
    \cup {Elem(RootName, <<e1, e2>>) : e1 \in Leaves \cup Branches, e2 \in Leaves \cup Branches}
    \cup {Elem(RootName, <<l1, l2, l3>>) : l1 \in Leaves, l2 \in Leaves, l3 \in Leaves}

MaxRawLen == 3

RawTokens ==
    {Open("Item"), Close("Item"), Self("Item"), Open("Key"), Close("Key"),
     Ch("a"), Ch(" "), Decl}

\* any text at all: every token string up to MaxRawLen tokens
RawDocuments == UNION {[1..n -> RawTokens] : n \in 0..MaxRawLen}

\* what parseXmlResponse is called with; tree is the element tree the
\* document was written from, when there is one
XmlInputs ==
    {[xml |-> Render(t), tree |-> t] : t \in RootTrees}
    \cup {[xml |-> d, tree |-> None] : d \in RawDocuments}

\* leaf strings: plain, with white space at an edge, with the five special
\* characters, and text that spells an entity
LeafStrings ==
    {<<>>, <<"a">>, <<"b">>, <<" ", "a">>, <<"&">>, <<"<">>, <<">">>, <<"\"">>, <<"'">>,
     <<"a", "&", "b">>,
     <<"&", "l", "t", ";">>, <<"&", "a", "m", "p", ";">>,
     <<"&", "q", "u", "o", "t", ";">>, <<"&", "a", "p", "o", "s", ";">>}

PlainStrings == {<<>>, <<"a">>, <<"b">>}

Str(s) == StrV(Text(s))

\* an object with one key, and one with two
Obj1(k, x) == ObjV(<<k>>, (k :> x))
Obj2(k1, x1, k2, x2) == ObjV(<<k1, k2>>, (k1 :> x1) @@ (k2 :> x2))

\* values under a key: strings, null, sequences of strings, and a sequence
\* that holds a sequence
InnerValues ==
    {Str(s) : s \in LeafStrings}
    \cup {NullV}
    \cup {ArrV(<<Str(s1), Str(s2)>>) : s1 \in PlainStrings, s2 \in PlainStrings}
    \cup {ArrV(<<Str(<<"a">>), Str(<<"b">>), Str(<<"a">>)>>),
          ArrV(<<ArrV(<<Str(<<"a">>), Str(<<"b">>)>>), Str(<<"a">>)>>)}

FlatObjects ==
    {EmptyObj}
    \cup {Obj1(k, x) : k \in XmlNames, x \in InnerValues}
    \cup {Obj2("Item", Str(s1), "Key", Str(s2)) : s1 \in PlainStrings, s2 \in PlainStrings}
    \cup {Obj2("Key", Str(s1), "Item", Str(s2)) : s1 \in PlainStrings, s2 \in PlainStrings}

\* structures handed to buildXml
XmlStructures ==
    FlatObjects
    \cup {Obj1(k, o) : k \in XmlNames, o \in FlatObjects}
    \cup {Obj1(k, ArrV(<<Obj1("Key", Str(<<"a">>)), Obj1("Key", Str(<<"b">>))>>)) :
            k \in XmlNames}

\* a caller hands a document to parseXmlResponse
CallParseXmlResponse ==
    /\ pc = "idle"
    /\ \E x \in XmlInputs :
         call' = [fn |-> "parseXmlResponse", api |-> "xml", options |-> x]
    /\ pc' = "parse"
    /\ UNCHANGED <<inv, creds, wire, presigned, resp, reqOut, outcome,
                   httpCount, signCount, reqHttp>>

\* parseXmlResponse resolves
ParseXmlResponse ==
    /\ pc = "parse"
    /\ reqOut' = Returned(parseXmlResponse(call.options.xml))
    /\ outcome' = reqOut'
    /\ pc' = "done"
    /\ UNCHANGED <<inv, call, creds, wire, presigned, resp, httpCount, signCount, reqHttp>>

\* a caller builds the document of a structure; wire holds the document
CallBuildXml ==
    /\ pc = "idle"
    /\ \E o \in XmlStructures :
         /\ call' = [fn |-> "buildXml", api |-> "xml",
                     options |-> [obj |-> o, rootName |-> RootName]]
         /\ wire' = buildXml(o, RootName)
    /\ pc' = "built"
    /\ UNCHANGED <<inv, creds, presigned, resp, reqOut, outcome,
                   httpCount, signCount, reqHttp>>

\* the document that was built is decoded again
DecodeBuilt ==
    /\ pc = "built"
    /\ reqOut' = Returned(parseXmlResponse(wire))
    /\ outcome' = reqOut'
    /\ pc' = "done"
    /\ UNCHANGED <<inv, call, creds, wire, presigned, resp, httpCount, signCount, reqHttp>>

XmlNext ==
    \/ CallParseXmlResponse
    \/ ParseXmlResponse
    \/ CallBuildXml
    \/ DecodeBuilt
    \/ Done

XmlSpec == Init /\ [][XmlNext]_vars

Parsed == pc = "done" /\ call.fn = "parseXmlResponse"
ParsedTree == Parsed /\ call.options.tree # None
RoundTripped == pc = "done" /\ call.fn = "buildXml"

\* the children of an element that carry name n, in document order
KidsNamed(kids, n) == SelectSeq(kids, LAMBDA k : k.n = n)

KidNames(e) == {e.kids[j].n : j \in 1..Len(e.kids)}

RECURSIVE DecodesAs(_, _)

\* value is what element e stands for: a name that occurs once among the
\* children holds that child's value and no sequence, a name that occurs
\* several times holds the sequence of those children's values in document
\* order; keys that no child names are not looked at
DecodesAs(value, e) ==
    CASE e.kind = "self" -> value = StrV(<<>>)
      [] e.kind = "text" -> value = Str(e.text)
      [] e.kind = "elem" ->
            /\ value.t = "obj"
            /\ \A n \in KidNames(e) :
                 LET same == KidsNamed(e.kids, n)
                     got == Get(value, n)
                 IN  IF Len(same) = 1
                     THEN got.t # "arr" /\ DecodesAs(got, same[1])
                     ELSE /\ got.t = "arr"
                          /\ Len(got.v) = Len(same)
                          /\ \A j \in 1..Len(same) : DecodesAs(got.v[j], same[j])

RECURSIVE HasSelfTag(_)

HasSelfTag(e) ==
    \/ e.kind = "self"
    \/ e.kind = "elem" /\ \E j \in 1..Len(e.kids) : HasSelfTag(e.kids[j])

RECURSIVE HasName(_, _)

HasName(e, n) ==
    \/ e.n = n
    \/ e.kind = "elem" /\ \E j \in 1..Len(e.kids) : HasName(e.kids[j], n)

RECURSIVE NestsOwnName(_)

\* some element has a descendant that carries its own name
NestsOwnName(e) ==
    /\ e.kind = "elem"
    /\ \E j \in 1..Len(e.kids) : HasName(e.kids[j], e.n) \/ NestsOwnName(e.kids[j])

\* C14 as stated: same-named siblings under one parent, written as open/close
\* pairs or as self-closing tags, decode to a sequence with one entry per
\* occurrence in document order, and a name that occurs once decodes to a
\* scalar entry.
C14_AsStated ==
    ParsedTree => DecodesAs(Get(reqOut.value, RootName), call.options.tree)

\* C14, the part the code keeps: in a document of open/close pairs only, where
\* no element nests an element of its own name, same-named siblings decode to
\* a sequence in document order and a single occurrence to a scalar entry.
C14_PairsInOrder ==
    (ParsedTree /\ ~HasSelfTag(call.options.tree) /\ ~NestsOwnName(call.options.tree))
        => DecodesAs(Get(reqOut.value, RootName), call.options.tree)

\* <Root><Item>a</Item><Item/></Root> has been decoded: Item holds the empty
\* string of the self-closing tag before the text of the pair
C14_SelfClosingFirst ==
    /\ ParsedTree
    /\ call.options.tree = Elem(RootName, <<Leaf("Item", <<"a">>), SelfTag("Item")>>)
    /\ Get(reqOut.value, RootName) = Obj1("Item", ArrV(<<StrV(<<>>), Str(<<"a">>)>>))

\* a document of pairs with a repeated name has been decoded into a sequence
C14_Witness ==
    /\ ParsedTree
    /\ call.options.tree =
         Elem(RootName, <<Leaf("Item", <<"a">>), Leaf("Key", <<"b">>), Leaf("Item", <<"b">>)>>)
    /\ Get(reqOut.value, RootName) =
         Obj2("Item", ArrV(<<Str(<<"a">>), Str(<<"b">>)>>), "Key", Str(<<"b">>))

RECURSIVE InRoundTripDomain(_)

\* a structure of string leaves, objects and sequences, where a sequence has
\* at least two entries and none of them is a sequence: nothing in it decodes
\* to either a scalar or a sequence, and it has no attribute key
InRoundTripDomain(x) ==
    CASE x.t = "str" -> TRUE
      [] x.t = "arr" ->
            /\ Len(x.v) >= 2
            /\ \A j \in 1..Len(x.v) : x.v[j].t # "arr" /\ InRoundTripDomain(x.v[j])
      [] x.t = "obj" ->
            \A j \in 1..Len(x.keys) :
                ~IsAttributeKey(x.keys[j]) /\ InRoundTripDomain(Get(x, x.keys[j]))
      [] OTHER -> FALSE

RECURSIVE HasKeyInside(_, _)

HasKeyInside(x, k) ==
    CASE x.t = "arr" -> \E j \in 1..Len(x.v) : HasKeyInside(x.v[j], k)
      [] x.t = "obj" ->
            \E j \in 1..Len(x.keys) :
                x.keys[j] = k \/ HasKeyInside(Get(x, x.keys[j]), k)
      [] OTHER -> FALSE

RECURSIVE SurvivesRoundTrip(_)

\* the structures the codec does carry: leaf strings without white space at
\* an edge and without text that spells &quot; or &apos;, no empty object, and
\* no key whose value holds the same key again
SurvivesRoundTrip(x) ==
    CASE x.t = "str" ->
            /\ Trim(x.v) = x.v
            /\ ~IsSubstring(EntQuot, x.v)
            /\ ~IsSubstring(EntApos, x.v)
      [] x.t = "arr" -> \A j \in 1..Len(x.v) : SurvivesRoundTrip(x.v[j])
      [] x.t = "obj" ->
            /\ x.keys # <<>>
            /\ \A j \in 1..Len(x.keys) :
                 /\ SurvivesRoundTrip(Get(x, x.keys[j]))
                 /\ ~HasKeyInside(Get(x, x.keys[j]), x.keys[j])
      [] OTHER -> FALSE

\* C15 as stated: a structure without attributes and without scalar/sequence
\* ambiguity, serialized by buildXml and decoded by parseXmlResponse, is found
\* unchanged under the root tag's key.
C15_AsStated ==
    (RoundTripped /\ InRoundTripDomain(call.options.obj))
        => Get(reqOut.value, RootName) = call.options.obj

\* C15, the part the code keeps: the round trip returns the structure when in
\* addition its leaf strings have no white space at an edge and spell no
\* &quot; or &apos;, no object in it is empty and no key nests itself.
C15_RoundTrip ==
    (RoundTripped /\ InRoundTripDomain(call.options.obj)
                  /\ SurvivesRoundTrip(call.options.obj))
        => Get(reqOut.value, RootName) = call.options.obj

\* {Item: {Item: 'a'}} was built as <Root><Item><Item>a</Item></Item></Root>
\* and decoded to {Item: '<Item>a'}
C15_NestedSameKeyLost ==
    /\ RoundTripped
    /\ call.options.obj = Obj1("Item", Obj1("Item", Str(<<"a">>)))
    /\ Get(reqOut.value, RootName) = Obj1("Item", StrV(<<Open("Item"), Ch("a")>>))

\* a structure with a sequence of objects came back unchanged
C15_Witness ==
    /\ RoundTripped
    /\ call.options.obj =
         Obj1("Item", ArrV(<<Obj1("Key", Str(<<"a">>)), Obj1("Key", Str(<<"b">>))>>))
    /\ Get(reqOut.value, RootName) = call.options.obj

\* what the decoder makes of the text EncodeEntities wrote for leaf string s,
\* as the content of one element
Unescaped(s) == Get(parseXmlToObject(buildNode(StrV(s), "Item")), "Item")

RECURSIVE LeafStringsOf(_)

\* the leaf strings of a structure
LeafStringsOf(x) ==
    CASE x.t = "str" -> {x.v}
      [] x.t = "arr" -> UNION {LeafStringsOf(x.v[j]) : j \in 1..Len(x.v)}
      [] x.t = "obj" -> UNION {LeafStringsOf(Get(x, x.keys[j])) : j \in 1..Len(x.keys)}
      [] OTHER -> {}

\* C16 as stated: entity escaping on build followed by unescaping on decode
\* returns every leaf string as it was, text that spells an entity such as
\* &quot; included (white space at the edges, which the decoder trims, aside).
C16_AsStated ==
    RoundTripped =>
        \A s \in LeafStringsOf(call.options.obj) : Unescaped(s) = StrV(Trim(s))

\* C16, the part the code keeps: a leaf string that does not spell &quot; or
\* &apos; comes back as it was.
C16_EscapeThenUnescape ==
    RoundTripped =>
        \A s \in LeafStringsOf(call.options.obj) :
            (~IsSubstring(EntQuot, s) /\ ~IsSubstring(EntApos, s))
                => Unescaped(s) = StrV(Trim(s))

\* the leaf string &quot; was written as &amp;quot; and decoded to one double
\* quote
C16_QuotTextLost ==
    /\ RoundTripped
    /\ call.options.obj = Obj1("Item", Str(<<"&", "q", "u", "o", "t", ";">>))
    /\ wire = <<Decl, Open(RootName), Open("Item")>> \o EntAmp
                \o Text(<<"q", "u", "o", "t", ";">>) \o <<Close("Item"), Close(RootName)>>
    /\ Get(Get(reqOut.value, RootName), "Item") = Str(<<"\"">>)

\* the leaf string &lt; was written as &amp;lt; and came back as &lt;
C16_Witness ==
    /\ RoundTripped
    /\ call.options.obj = Obj1("Item", Str(<<"&", "l", "t", ";">>))
    /\ Get(Get(reqOut.value, RootName), "Item") = Str(<<"&", "l", "t", ";">>)

\* position of the j-th child of e among the children of the same name
RankAmongSame(e, j) == Cardinality({i \in 1..j : e.kids[i].n = e.kids[j].n})

RECURSIVE SelfTagsDecoded(_, _)

\* every self-closing tag under e is the empty string under its name in the
\* decoded value of its parent: the entry itself when the name occurs once,
\* its entry of the sequence when the name is repeated
SelfTagsDecoded(value, e) ==
    e.kind = "elem" =>
        \A j \in 1..Len(e.kids) :
            LET k == e.kids[j]
                got == Get(value, k.n)
                mine == IF Len(KidsNamed(e.kids, k.n)) = 1 THEN got
                        ELSE IF got.t = "arr" /\ RankAmongSame(e, j) <= Len(got.v)
                             THEN got.v[RankAmongSame(e, j)]
                             ELSE Undefined
            IN  CASE k.kind = "self" -> mine = StrV(<<>>)
                  [] k.kind = "elem" -> SelfTagsDecoded(mine, k)
                  [] OTHER -> TRUE

RECURSIVE PairedNames(_)

\* the names of the open/close pairs below e
PairedNames(e) ==
    IF e.kind = "elem"
    THEN UNION {(IF e.kids[j].kind = "self" THEN {} ELSE {e.kids[j].n})
                  \cup PairedNames(e.kids[j]) : j \in 1..Len(e.kids)}
    ELSE {}

RECURSIVE SelfNames(_)

\* the names of the self-closing tags below e
SelfNames(e) ==
    CASE e.kind = "self" -> {e.n}
      [] e.kind = "elem" -> UNION {SelfNames(e.kids[j]) : j \in 1..Len(e.kids)}
      [] OTHER -> {}

\* C17 as stated: a self-closing tag decodes to an empty leaf string under its
\* tag name wherever it stands in the document and whatever elements precede
\* or follow it.
C17_AsStated ==
    ParsedTree => SelfTagsDecoded(Get(reqOut.value, RootName), call.options.tree)

RECURSIVE SelfTagRepeatedBelow(_)

\* a self-closing child of some element has a self-closing tag of its name
\* further down under the same element
SelfTagRepeatedBelow(e) ==
    /\ e.kind = "elem"
    /\ \E j \in 1..Len(e.kids) :
         /\ e.kids[j].kind = "elem"
         /\ \/ \E i \in 1..Len(e.kids) :
                  e.kids[i].kind = "self" /\ e.kids[i].n \in SelfNames(e.kids[j])
            \/ SelfTagRepeatedBelow(e.kids[j])

\* C17, the part the code keeps: in a document where no open/close pair
\* carries the name of a self-closing tag, no self-closing tag has one of its
\* name further down under its parent and no element nests an element of its
\* own name, every self-closing tag decodes to an empty leaf string under its
\* tag name.
C17_SelfClosingEmpty ==
    (ParsedTree /\ SelfNames(call.options.tree) \cap PairedNames(call.options.tree) = {}
                /\ ~SelfTagRepeatedBelow(call.options.tree)
                /\ ~NestsOwnName(call.options.tree))
        => SelfTagsDecoded(Get(reqOut.value, RootName), call.options.tree)

\* <Root><Item/><Key><Item>a</Item></Key></Root> has been decoded: the
\* self-closing tag was also read as an opening tag, so Item holds a sequence
\* and Key is lost
C17_ReadAsOpener ==
    /\ ParsedTree
    /\ call.options.tree =
         Elem(RootName, <<SelfTag("Item"), Elem("Key", <<Leaf("Item", <<"a">>)>>)>>)
    /\ Get(reqOut.value, RootName) =
         Obj1("Item", ArrV(<<StrV(<<>>), StrV(<<Open("Key"), Open("Item"), Ch("a")>>)>>))

\* self-closing tags between other elements decoded to empty strings
C17_Witness ==
    /\ ParsedTree
    /\ call.options.tree =
         Elem(RootName, <<Leaf("Key", <<"a">>), SelfTag("Item"), Leaf("Key", <<"b">>)>>)
    /\ Get(Get(reqOut.value, RootName), "Item") = StrV(<<>>)

\* no tag of document s is recognized: it has no self-closing tag and no
\* opening tag with a closing tag of its name after it
NoTagRecognized(s) ==
    \A p \in 1..Len(s) :
        /\ s[p].k # "self"
        /\ s[p].k = "open" => \A q \in (p + 1)..Len(s) : s[q] # Close(s[p].n)

\* the names the decoder is bound to recognize in s: those of the
\* self-closing tags, and that of the first tag with a closing tag after it
RecognizedNames(s) ==
    LET paired == {p \in 1..Len(s) :
                     /\ s[p].k \in {"open", "self"}
                     /\ \E q \in (p + 1)..Len(s) : s[q] = Close(s[p].n)}
        first == CHOOSE p \in paired : \A q \in paired : p <= q
    IN  {s[p].n : p \in {q \in 1..Len(s) : s[q].k = "self"}}
        \cup (IF paired = {} THEN {} ELSE {s[first].n})

DepthAt(s, p) ==
    Cardinality({q \in 1..(p - 1) : s[q].k = "open"})
    - Cardinality({q \in 1..(p - 1) : s[q].k = "close"})

\* the names of the elements of s that stand inside no other element of s,
\* in order
TopLevelNames(s) ==
    LET tops == SelectSeq([p \in 1..Len(s) |-> p],
                          LAMBDA p : s[p].k \in {"open", "self"} /\ DepthAt(s, p) = 0)
    IN  [j \in 1..Len(tops) |-> s[tops[j]].n]

RECURSIVE Flattened(_)

\* the entries of a sequence, with the entries of an entry that is itself a
\* sequence in its place
Flattened(entries) ==
    IF entries = <<>> THEN <<>>
    ELSE (IF Head(entries).t = "arr" THEN Flattened(Head(entries).v) ELSE <<Head(entries)>>)
         \o Flattened(Tail(entries))

RECURSIVE ElementsUnder(_, _)

\* one element under tag k for each entry, one after the other
ElementsUnder(k, entries) ==
    IF entries = <<>> THEN <<>>
    ELSE buildNode(Head(entries), k) \o ElementsUnder(k, Tail(entries))

\* the structure passed to buildXml has key k with a sequence under it, at the
\* root or one object below it
SequenceUnder(k) ==
    /\ call.fn = "buildXml"
    /\ LET o == call.options.obj
       IN  \/ o.keys = <<k>> /\ o.v[k].t = "arr"
           \/ /\ Len(o.keys) = 1
              /\ Get(o, o.keys[1]).t = "obj"
              /\ Get(o, o.keys[1]).keys = <<k>>
              /\ Get(Get(o, o.keys[1]), k).t = "arr"

\* the sequence under key k
SequenceOf(k) ==
    LET o == call.options.obj
    IN  IF o.keys = <<k>> /\ o.v[k].t = "arr" THEN o.v[k].v
        ELSE Get(Get(o, o.keys[1]), k).v

\* the content of the element that holds key k in the built document
ContentAround(k) ==
    LET o == call.options.obj
    IN  IF o.keys = <<k>> /\ o.v[k].t = "arr"
        THEN SubSeq(wire, 3, Len(wire) - 1)
        ELSE SubSeq(wire, 4, Len(wire) - 2)

\* C19: buildXml writes a sequence under a key as one element per entry, each
\* under the key's tag name, in the order of the sequence and with no element
\* around them; an entry that is itself a sequence stands as its own entries.
C19_SequenceRepeatsTag ==
    \A k \in XmlNames :
        (pc \in {"built", "done"} /\ SequenceUnder(k)) =>
            LET entries == SequenceOf(k)
                content == ContentAround(k)
            IN  /\ content = ElementsUnder(k, Flattened(entries))
                /\ TopLevelNames(content) = [j \in 1..Len(Flattened(entries)) |-> k]
                /\ \A p \in 1..Len(content) :
                     DepthAt(content, p) = 0 => content[p].k \in {"open", "self"}
                /\ (\A j \in 1..Len(entries) : entries[j].t # "arr")
                     => Len(TopLevelNames(content)) = Len(entries)

\* {Item: ['a', 'b', 'a']} under Root was built as
\* <Root><Item>a</Item><Item>b</Item><Item>a</Item></Root>
C19_Witness ==
    /\ pc = "built"
    /\ call.fn = "buildXml"
    /\ call.options.obj = Obj1("Item", ArrV(<<Str(<<"a">>), Str(<<"b">>), Str(<<"a">>)>>))
    /\ wire = <<Decl, Open(RootName),
                Open("Item"), Ch("a"), Close("Item"),
                Open("Item"), Ch("b"), Close("Item"),
                Open("Item"), Ch("a"), Close("Item"),
                Close(RootName)>>

(***************************************************************************)
(* Object listing (handleListObjects)                                      *)
(***************************************************************************)
ListTypeName == <<"l", "i", "s", "t", "-", "t", "y", "p", "e">>
MaxKeysName == <<"m", "a", "x", "-", "k", "e", "y", "s">>
ContinuationTokenName ==
    <<"c", "o", "n", "t", "i", "n", "u", "a", "t", "i", "o", "n", "-", "t", "o", "k", "e", "n">>
DelimiterName == <<"d", "e", "l", "i", "m", "i", "t", "e", "r">>
StartAfterName == <<"s", "t", "a", "r", "t", "-", "a", "f", "t", "e", "r">>

\* String(value) of a decoded value put into the query
QueryText(val) ==
    IF val.t = "str" THEN [i \in 1..Len(val.v) |-> val.v[i].n]
    ELSE <<"[", "o", "b", "j", "e", "c", "t", " ", "O", "b", "j", "e", "c", "t", "]">>

\* the query of one list request; "" stands for an additional field that is
\* not set
\* a query that never carries the continuation token
ListObjectsQueryNoToken(p, continuationToken) ==
    << <<ListTypeName, <<"2">>>> >>
    \o (IF ~p.returnAll /\ p.limit # 0
        THEN << <<MaxKeysName, NumToStr(p.limit)>> >> ELSE <<>>)
    \o (IF p.additionalFields.prefix # <<>>
        THEN << <<PrefixName, p.additionalFields.prefix>> >> ELSE <<>>)

ListObjectsQuery(p, continuationToken) ==
    << <<ListTypeName, <<"2">>>> >>
    \o (IF ~p.returnAll /\ p.limit # 0
        THEN << <<MaxKeysName, NumToStr(p.limit)>> >> ELSE <<>>)
    \o (IF Truthy(continuationToken)
        THEN << <<ContinuationTokenName, QueryText(continuationToken)>> >> ELSE <<>>)
    \o (IF p.additionalFields.prefix # <<>>
        THEN << <<PrefixName, p.additionalFields.prefix>> >> ELSE <<>>)
    \o (IF p.additionalFields.delimiter # <<>>
        THEN << <<DelimiterName, p.additionalFields.delimiter>> >> ELSE <<>>)
    \o (IF p.additionalFields.startAfter # <<>>
        THEN << <<StartAfterName, p.additionalFields.startAfter>> >> ELSE <<>>)

ListObjectsRequest(p, continuationToken) ==
    [fn |-> "s3ApiRequest", api |-> "s3",
     options |-> S3Options("GET", p.bucketName, <<>>,
                           ListObjectsQuery(p, continuationToken), NoHeaders, NoBody, FALSE)]

RECURSIVE ParseInt(_)

\* parseInt(text, 10) of a string of digits
ParseInt(digits) ==
    IF digits = <<>> THEN 0
    ELSE ParseInt(SubSeq(digits, 1, Len(digits) - 1)) * 10 + HexVal(digits[Len(digits)].n)

\* the output item of one entry of Contents
ListedObject(obj) ==
    LET size == Get(obj, "Size")
        etag == Get(obj, "ETag")
    IN [key |-> Get(obj, "Key"),
        lastModified |-> Get(obj, "LastModified"),
        etag |-> IF etag.t = "str" THEN StrV(ReplaceAll(etag.v, Text(<<"\"">>), <<>>))
                 ELSE Undefined,
        size |-> IF Truthy(size) THEN ParseInt(size.v) ELSE 0,
        sizeFormatted |-> IF Truthy(size) THEN formatBytes(ParseInt(size.v))
                          ELSE <<"0", " ", "B", "y", "t", "e", "s">>,
        storageClass |-> Get(obj, "StorageClass"),
        owner |-> Get(obj, "Owner")]

\* result?.Contents || [], a single object made a list of one
ContentsOf(result) ==
    LET contents == OrElse(Get(result, "Contents"), ArrV(<<>>))
    IN  IF contents.t = "arr" THEN contents.v ELSE <<contents>>

\* a loop that goes on as long as the response carries a token
ContinueListingOnToken(returnAll, continuationToken) == Truthy(continuationToken)

\* while (continuationToken && returnAll)
ContinueListing(returnAll, continuationToken) == Truthy(continuationToken) /\ returnAll

\* if (!returnAll && objects.length >= limit) break
StopAtLimit(p, objects) == ~p.returnAll /\ Len(objects) >= p.limit

\* the body of the loop after s3ApiRequest returned response: the handler's
\* state after it and whether the loop goes round again
ListObjectsPage(i, response) ==
    LET result == Get(response, "ListBucketResult")
        contents == ContentsOf(result)
        objects == i.objects \o [j \in 1..Len(contents) |-> ListedObject(contents[j])]
        continuationToken == Get(result, "NextContinuationToken")
    IN [inv |-> [i EXCEPT !.objects = objects, !.continuationToken = continuationToken],
        again |-> /\ ~StopAtLimit(i.params, objects)
                  /\ ContinueListing(i.params.returnAll, continuationToken)]

\* what the handler returns: objects.slice(0, limit) when the limit applies
ListObjectsResult(i) ==
    IF ~i.params.returnAll /\ Len(i.objects) > i.params.limit
    THEN SubSeq(i.objects, 1, i.params.limit)
    ELSE i.objects

MaxPages == 3
MaxContents == 3

ListLimits == {1, 2}

NoAdditionalFields == [prefix |-> <<>>, delimiter |-> <<>>, startAfter |-> <<>>]

ListObjectsParams ==
    [bucketName : {BucketA, BucketUpper}, returnAll : BOOLEAN, limit : ListLimits,
     additionalFields : {NoAdditionalFields,
                         [prefix |-> <<"a", "/">>, delimiter |-> <<"/">>,
                          startAfter |-> <<"a", "/", "b">>]}]

\* one <Contents> element; the first one carries a size and an entity tag
ContentsElement(n) ==
    <<Open("Contents"), Open("Key"), Ch("k"), Ch(Ascii[17 + n]), Close("Key")>>
    \o (IF n = 1
        THEN <<Open("Size"), Ch("7"), Close("Size"),
               Open("ETag"), Ch("\""), Ch("e"), Ch("\""), Close("ETag")>>
        ELSE <<>>)
    \o <<Close("Contents")>>

\* a ListBucketResult document with n objects and, when token is not empty,
\* a NextContinuationToken
ListBody(n, token) ==
    <<Decl, Open("ListBucketResult")>>
    \o (IF n >= 1 THEN ContentsElement(1) ELSE <<>>)
    \o (IF n >= 2 THEN ContentsElement(2) ELSE <<>>)
    \o (IF n >= 3 THEN ContentsElement(3) ELSE <<>>)
    \o (IF token # <<>>
        THEN <<Open("NextContinuationToken")>> \o Text(token)
             \o <<Close("NextContinuationToken")>>
        ELSE <<>>)
    \o <<Close("ListBucketResult")>>

ListTokens == {<<>>, <<"t", "1">>, <<"t", "2">>, <<"1", "+", "/", "=">>}

ListStatuses == {200, 404}

\* the credentials of the node while it lists: complete, or without a secret
ListCredentialChoices ==
    {[accessKeyId |-> "AKID", secretAccessKey |-> "SECRET", region |-> "",
      customEndpoint |-> ""],
     [accessKeyId |-> "AKID", secretAccessKey |-> "", region |-> "",
      customEndpoint |-> ""]}

ListTimes == {[date |-> "20261101", time |-> "235959"]}

\* handleListObjects up to its first await of s3ApiRequest
HandleListObjects ==
    /\ pc = "idle"
    /\ \E p \in ListObjectsParams :
         /\ inv' = [handler |-> "handleListObjects", params |-> p,
                    objects |-> <<>>, continuationToken |-> Undefined]
         /\ IF ~validateBucketName(p.bucketName).valid
            THEN /\ outcome' = InvalidBucket(p.bucketName)
                 /\ pc' = "done"
                 /\ call' = call
            ELSE /\ outcome' = outcome
                 /\ pc' = "creds"
                 /\ call' = ListObjectsRequest(p, Undefined)
    /\ UNCHANGED <<creds, wire, presigned, resp, reqOut, httpCount, signCount, reqHttp>>

\* the loop went through one page: the handler sends the next request or
\* returns
ListGoOn(page) ==
    /\ inv' = page.inv
    /\ IF page.again
       THEN /\ call' = ListObjectsRequest(page.inv.params, page.inv.continuationToken)
            /\ pc' = "creds"
            /\ reqHttp' = 0
            /\ outcome' = outcome
       ELSE /\ outcome' = Returned(ListObjectsResult(page.inv))
            /\ pc' = "done"
            /\ UNCHANGED <<call, reqHttp>>

\* s3ApiRequest ended with r: an error goes through the handler, a response
\* is taken into the loop
ListHandle(r) ==
    /\ reqOut' = r
    /\ IF IsThrow(r)
       THEN /\ outcome' = r
            /\ pc' = "done"
            /\ UNCHANGED <<inv, call, reqHttp>>
       ELSE ListGoOn(ListObjectsPage(inv, r.value))

\* the response to a list request arrives.  The server sends a token with at
\* most MaxPages - 1 pages.
ListRespond ==
    /\ pc = "await" /\ inv.handler = "handleListObjects"
    /\ \E st \in ListStatuses, n \in 0..MaxContents, token \in ListTokens :
         /\ httpCount >= MaxPages => token = <<>>
         /\ resp' = [kind |-> "response", statusCode |-> st, body |-> ListBody(n, token),
                     headers |-> NoHeaders]
         /\ ListHandle(TryRequest(S3HandleResponse(call.options, resp'),
                                  "Mega S4 operation failed: "))
    /\ UNCHANGED <<creds, wire, presigned, httpCount, signCount>>

\* s3ApiRequest of a list request: credentials arrive, the request is built,
\* signed and handed to httpRequest
ListSend ==
    /\ pc = "creds" /\ call.api = "s3"
    /\ \E c \in ListCredentialChoices, now \in ListTimes :
         /\ creds' = c
         /\ IF CredentialsMissing(c)
            THEN /\ Finish(CredentialsError)
                 /\ UNCHANGED <<wire, httpCount, signCount, reqHttp>>
            ELSE /\ wire' = S3RequestOptions(call.options, getMegaCredentials(c), now)
                 /\ signCount' = signCount + 1
                 /\ httpCount' = httpCount + 1
                 /\ reqHttp' = reqHttp + 1
                 /\ pc' = "await"
                 /\ UNCHANGED <<reqOut, outcome>>
    /\ UNCHANGED <<inv, call, presigned, resp>>

ListNext ==
    \/ HandleListObjects
    \/ ListSend
    \/ ListRespond
    \/ TransportFail
    \/ Done

ListSpec == Init /\ [][ListNext]_vars

Listing == inv.handler = "handleListObjects"

\* C20: object listing with returnAll disabled and limit L issues one list
\* request and no more, and returns at most L objects, whatever continuation
\* token the responses carry.
C20_LimitOneRequest ==
    (Listing /\ ~inv.params.returnAll) =>
        /\ httpCount <= 1
        /\ (pc = "done" /\ outcome.kind = "return") =>
              /\ httpCount = 1
              /\ Len(outcome.value) <= inv.params.limit

\* with limit 2 the server sent one object and a continuation token: the
\* handler returned that object after its one request
C20_Witness ==
    /\ Listing /\ pc = "done"
    /\ ~inv.params.returnAll /\ inv.params.limit = 2
    /\ resp.kind = "response" /\ resp.body = ListBody(1, <<"t", "1">>)
    /\ inv.continuationToken = Str(<<"t", "1">>)
    /\ outcome.kind = "return" /\ Len(outcome.value) = 1
    /\ httpCount = 1

\* with limit 1 the server sent three objects and a token: one was returned
C20_Sliced ==
    /\ Listing /\ pc = "done"
    /\ ~inv.params.returnAll /\ inv.params.limit = 1
    /\ resp.kind = "response" /\ resp.body = ListBody(3, <<"t", "2">>)
    /\ outcome.kind = "return" /\ Len(outcome.value) = 1
    /\ outcome.value[1].key = Str(<<"k", "1">>)
    /\ outcome.value[1].etag = Str(<<"e">>)
    /\ outcome.value[1].size = 7
    /\ outcome.value[1].sizeFormatted = <<"7", " ", "B", "y", "t", "e", "s">>

(***************************************************************************)
(* Bucket names: validateBucketName applied to names of every shape        *)
(***************************************************************************)
MaxNameLen == 4
NameAlphabet == {"a", "1", "-", ".", "A"}

RECURSIVE Repeat(_, _)
Repeat(c, n) == IF n = 0 THEN <<>> ELSE <<c>> \o Repeat(c, n - 1)

\* every name of up to MaxNameLen characters, names at the length limits, and
\* names made of dot-separated groups of digits
BucketNames ==
    UNION {[1..k -> NameAlphabet] : k \in 0..MaxNameLen}
    \cup {Repeat("a", 63), Repeat("a", 64), Repeat("a", 62) \o <<"-">>,
          Repeat("a", 31) \o <<".">> \o Repeat("1", 31)}
    \cup {<<"1", ".", "1", ".", "1", ".", "1">>,
          <<"1", "9", "2", ".", "1", "6", "8", ".", "1", ".", "1">>,
          <<"1", ".", "1", ".", "1", ".", "a">>,
          <<"1", ".", "1", ".", "1", ".", "1", ".", "1">>,
          <<"1", "1", "1", "1", ".", "1", ".", "1", ".", "1">>,
          <<"1", ".", "1", ".", "1", ".", "1", "1", "1", "1">>,
          <<"1", ".", "1", ".", "1", "-", "1">>,
          <<"1", "1", "1", ".", "1", "1", "1">>}

\* a caller hands a name to validateBucketName
CallValidateBucketName ==
    /\ pc = "idle"
    /\ \E b \in BucketNames :
         call' = [fn |-> "validateBucketName", api |-> "validation",
                  options |-> [bucketName |-> b]]
    /\ pc' = "validate"
    /\ UNCHANGED <<inv, creds, wire, presigned, resp, reqOut, outcome,
                   httpCount, signCount, reqHttp>>

\* validateBucketName returns its verdict
ValidateBucketName ==
    /\ pc = "validate"
    /\ reqOut' = Returned(validateBucketName(call.options.bucketName))
    /\ outcome' = reqOut'
    /\ pc' = "done"
    /\ UNCHANGED <<inv, call, creds, wire, presigned, resp, httpCount, signCount, reqHttp>>

BucketNext ==
    \/ CallValidateBucketName
    \/ ValidateBucketName
    \/ Done

BucketSpec == Init /\ [][BucketNext]_vars

BucketChecked == pc = "done" /\ call.fn = "validateBucketName"

AlphaNumeric == LowerAlpha \cup Digits

\* the four conditions of the documentation, read character by character
LengthInRange(s) == Len(s) >= 3 /\ Len(s) <= 63
OnlyAllowedCharacters(s) == \A i \in 1..Len(s) : s[i] \in AlphaNumeric \cup {"-", "."}
StartsAndEndsAlphaNumeric(s) ==
    s # <<>> /\ s[1] \in AlphaNumeric /\ s[Len(s)] \in AlphaNumeric

\* four groups of one to three digits separated by three dots
IpFormatted(s) ==
    /\ s # <<>>
    /\ Cardinality({i \in 1..Len(s) : s[i] = "."}) = 3
    /\ \A i \in 1..Len(s) : s[i] \in Digits \cup {"."}
    /\ s[1] # "." /\ s[Len(s)] # "."
    /\ \A i \in 1..(Len(s) - 1) : ~(s[i] = "." /\ s[i + 1] = ".")
    /\ \A i \in 1..(Len(s) - 3) : \E j \in i..(i + 3) : s[j] = "."

DocumentedName(s) ==
    /\ LengthInRange(s)
    /\ OnlyAllowedCharacters(s)
    /\ StartsAndEndsAlphaNumeric(s)
    /\ ~IpFormatted(s)

\* a dot stands between two letters or digits
DotsBetweenAlphaNumerics(s) ==
    \A i \in 1..Len(s) :
        s[i] = "." =>
            /\ i > 1 /\ s[i - 1] \in AlphaNumeric
            /\ i < Len(s) /\ s[i + 1] \in AlphaNumeric

\* C21 as stated: validateBucketName accepts a name exactly when it is 3 to 63
\* characters long, consists only of lowercase letters, digits, hyphens and
\* dots, starts and ends with a letter or digit and is not formatted as an IP
\* address; every other name is reported invalid with an error message.
C21_AsStated ==
    BucketChecked =>
        LET s == call.options.bucketName
            r == reqOut.value
        IN /\ r.valid <=> DocumentedName(s)
           /\ ~r.valid => r.error # ""

\* C21: validateBucketName accepts a name exactly when it meets the four
\* documented conditions and, in addition, every dot of the name stands
\* between two letters or digits (no empty label, no label that starts or
\* ends with a hyphen); every other name, the empty one included, is reported
\* invalid with an error message.
C21_BucketNames ==
    BucketChecked =>
        LET s == call.options.bucketName
            r == reqOut.value
        IN /\ r.valid <=> (DocumentedName(s) /\ DotsBetweenAlphaNumerics(s))
           /\ ~r.valid => r.error # ""

\* a name that meets the four documented conditions is rejected
C21_Witness ==
    /\ BucketChecked
    /\ call.options.bucketName = <<"a", ".", ".", "a">>
    /\ DocumentedName(call.options.bucketName)
    /\ ~reqOut.value.valid

(***************************************************************************)
(* executeMega: the dispatcher and its loop over the input items.  What a  *)
(* handler does for one item is its result here: it returns its output     *)
(* items or it throws an error with a message.                             *)
(***************************************************************************)
MaxItems == 2

\* resource, operation, the handler called, whether its results are spread
DispatchTable ==
    {<<"bucket", "list", "handleListBuckets", TRUE>>,
     <<"bucket", "create", "handleCreateBucket", FALSE>>,
     <<"bucket", "delete", "handleDeleteBucket", FALSE>>,
     <<"bucket", "head", "handleHeadBucket", FALSE>>,
     <<"bucket", "getLocation", "handleGetBucketLocation", FALSE>>,
     <<"bucket", "getBucketAcl", "handleGetBucketAcl", FALSE>>,
     <<"bucket", "getBucketPolicy", "handleGetBucketPolicy", FALSE>>,
     <<"bucket", "putBucketPolicy", "handlePutBucketPolicy", FALSE>>,
     <<"bucket", "deleteBucketPolicy", "handleDeleteBucketPolicy", FALSE>>,
     <<"object", "list", "handleListObjects", TRUE>>,
     <<"object", "put", "handlePutObject", FALSE>>,
     <<"object", "get", "handleGetObject", FALSE>>,
     <<"object", "delete", "handleDeleteObject", FALSE>>,
     <<"object", "deleteMultiple", "handleDeleteMultipleObjects", FALSE>>,
     <<"object", "head", "handleHeadObject", FALSE>>,
     <<"object", "copy", "handleCopyObject", FALSE>>,
     <<"object", "getPresignedUrl", "handleGetPresignedUrl", FALSE>>,
     <<"object", "getPresignedUploadUrl", "handleGetPresignedUploadUrl", FALSE>>,
     <<"object", "getObjectAcl", "handleGetObjectAcl", FALSE>>,
     <<"object", "createMultipartUpload", "handleCreateMultipartUpload", FALSE>>,
     <<"object", "uploadPart", "handleUploadPart", FALSE>>,
     <<"object", "completeMultipartUpload", "handleCompleteMultipartUpload", FALSE>>,
     <<"object", "abortMultipartUpload", "handleAbortMultipartUpload", FALSE>>,
     <<"object", "listParts", "handleListParts", TRUE>>,
     <<"object", "listMultipartUploads", "handleListMultipartUploads", TRUE>>,
     <<"object", "uploadPartCopy", "handleUploadPartCopy", FALSE>>,
     <<"iam", "getPolicy", "handleGetPolicy", FALSE>>,
     <<"iam", "getPolicyVersion", "handleGetPolicyVersion", FALSE>>,
     <<"iam", "listPolicies", "handleListPolicies", TRUE>>,
     <<"iam", "listAttachedUserPolicies", "handleListAttachedUserPolicies", TRUE>>,
     <<"iam", "listAttachedGroupPolicies", "handleListAttachedGroupPolicies", TRUE>>,
     <<"iam", "attachUserPolicy", "handleAttachUserPolicy", FALSE>>,
     <<"iam", "attachGroupPolicy", "handleAttachGroupPolicy", FALSE>>,
     <<"iam", "detachUserPolicy", "handleDetachUserPolicy", FALSE>>,
     <<"iam", "detachGroupPolicy", "handleDetachGroupPolicy", FALSE>>}

Resources == {"bucket", "object", "iam"}

\* the node parameters of one execution; two are no entry of the table
ExecuteParams ==
    {[resource |-> d[1], operation |-> d[2], items |-> n, continueOnFail |-> c] :
        d \in DispatchTable \cup {<<"bucket", "rename">>, <<"object", "rename">>,
                                  <<"iam", "rename">>, <<"queue", "list">>},
        n \in 0..MaxItems, c \in BOOLEAN}

Supported(p) == \E d \in DispatchTable : d[1] = p.resource /\ d[2] = p.operation
EntryOf(p) == CHOOSE d \in DispatchTable : d[1] = p.resource /\ d[2] = p.operation

\* bucket list is run once for the whole execution, every other pair per item
SingleExecution(p) == p.resource = "bucket" /\ p.operation = "list"

HandlerMessages == {<<"Access Denied">>, <<"Bucket name cannot be empty">>}

\* an output item of a handler called for item i
ResultItem(handler, i, j) ==
    [json |-> [handler |-> handler, n |-> j], pairedItem |-> [item |-> i]]

\* what a handler call for item i may end with
HandlerOutcomes(d, i) ==
    {[kind |-> "Error", message |-> m] : m \in HandlerMessages}
    \cup (IF d[4]
          THEN {Returned(<<>>), Returned(<<ResultItem(d[3], i, 1), ResultItem(d[3], i, 2)>>)}
          ELSE {Returned(<<ResultItem(d[3], i, 1)>>)})

\* the output item pushed in a catch block
ErrorItem(p, error, i) ==
    [json |-> IF p.resource = "bucket" /\ p.operation = "head"
              THEN [error |-> error.message, itemIndex |-> i, exists |-> FALSE]
              ELSE [error |-> error.message, itemIndex |-> i],
     pairedItem |-> [item |-> i]]

\* the node is executed: items, resource and operation are read
CallExecuteMega ==
    /\ pc = "idle"
    /\ \E p \in ExecuteParams :
         inv' = [handler |-> "executeMega", params |-> p, i |-> 0,
                 returnData |-> <<>>, calls |-> <<>>]
    /\ pc' = "dispatch"
    /\ UNCHANGED <<call, creds, wire, presigned, resp, reqOut, outcome,
                   httpCount, signCount, reqHttp>>

\* no branch for the pair, or for the resource
ExecUnsupported ==
    /\ pc = "dispatch"
    /\ ~Supported(inv.params)
    /\ outcome' = OperationError(
          IF inv.params.resource \in Resources
          THEN <<"The operation '", inv.params.operation,
                 "' is not supported for resource '", inv.params.resource, "'">>
          ELSE <<"The resource '", inv.params.resource,
                 "' is not recognized. Supported resources: bucket, object, iam">>)
    /\ pc' = "done"
    /\ UNCHANGED <<inv, call, creds, wire, presigned, resp, reqOut,
                   httpCount, signCount, reqHttp>>

\* bucket list: handleListBuckets is awaited once, for index 0, outside any
\* try block; its results are pushed and the execution returns
ExecListBuckets ==
    /\ pc = "dispatch"
    /\ Supported(inv.params)
    /\ SingleExecution(inv.params)
    /\ \E h \in HandlerOutcomes(EntryOf(inv.params), 0) :
         /\ inv' = [inv EXCEPT
                      !.calls = Append(@, [handler |-> EntryOf(inv.params)[3],
                                           itemIndex |-> 0, result |-> h]),
                      !.returnData = IF h.kind = "return" THEN @ \o h.value ELSE @]
         /\ outcome' = IF h.kind = "return" THEN Returned(<<inv'.returnData>>) ELSE h
    /\ pc' = "done"
    /\ UNCHANGED <<call, creds, wire, presigned, resp, reqOut,
                   httpCount, signCount, reqHttp>>

\* one turn of a per-item loop: the handler is awaited for item i inside a
\* try block; the catch block pushes an error item or throws the error again
ExecItem ==
    /\ pc \in {"dispatch", "loop"}
    /\ Supported(inv.params)
    /\ ~SingleExecution(inv.params)
    /\ inv.i < inv.params.items
    /\ \E h \in HandlerOutcomes(EntryOf(inv.params), inv.i) :
         LET called == Append(inv.calls, [handler |-> EntryOf(inv.params)[3],
                                          itemIndex |-> inv.i, result |-> h])
         IN IF h.kind = "return"
            THEN /\ inv' = [inv EXCEPT !.calls = called, !.i = @ + 1,
                                       !.returnData = @ \o h.value]
                 /\ pc' = "loop"
                 /\ outcome' = outcome
            ELSE IF inv.params.continueOnFail
            THEN /\ inv' = [inv EXCEPT !.calls = called, !.i = @ + 1,
                                       !.returnData =
                                          Append(@, ErrorItem(inv.params, h, inv.i))]
                 /\ pc' = "loop"
                 /\ outcome' = outcome
            ELSE /\ inv' = [inv EXCEPT !.calls = called]
                 /\ pc' = "done"
                 /\ outcome' = h
    /\ UNCHANGED <<call, creds, wire, presigned, resp, reqOut,
                   httpCount, signCount, reqHttp>>

\* the loop is over: return [returnData]
ExecReturn ==
    /\ pc \in {"dispatch", "loop"}
    /\ Supported(inv.params)
    /\ ~SingleExecution(inv.params)
    /\ inv.i >= inv.params.items
    /\ outcome' = Returned(<<inv.returnData>>)
    /\ pc' = "done"
    /\ UNCHANGED <<inv, call, creds, wire, presigned, resp, reqOut,
                   httpCount, signCount, reqHttp>>

ExecNext ==
    \/ CallExecuteMega
    \/ ExecUnsupported
    \/ ExecListBuckets
    \/ ExecItem
    \/ ExecReturn
    \/ Done

ExecSpec == Init /\ [][ExecNext]_vars

Executing == inv.handler = "executeMega" /\ Supported(inv.params)

Failed(c) == c.result.kind # "return"

\* the calls made so far are for items 0, 1, 2, ... in this order
AscendingCalls ==
    /\ Len(inv.calls) <= inv.params.items
    /\ \A k \in 1..Len(inv.calls) :
         /\ inv.calls[k].itemIndex = k - 1
         /\ inv.calls[k].handler = EntryOf(inv.params)[3]

IsErrorItemOf(item, c) ==
    /\ "error" \in DOMAIN item.json
    /\ item.json.error = c.result.message
    /\ item.json.itemIndex = c.itemIndex
    /\ item.pairedItem = [item |-> c.itemIndex]

\* every failed call left exactly one error item and was followed by the next
\* item; the execution ends by returning, after all items
ContinuesOnFail ==
    /\ \A k \in 1..Len(inv.calls) :
         Failed(inv.calls[k]) =>
            Cardinality({j \in 1..Len(inv.returnData) :
                            IsErrorItemOf(inv.returnData[j], inv.calls[k])}) = 1
    /\ pc = "done" =>
         /\ outcome = Returned(<<inv.returnData>>)
         /\ Len(inv.calls) = inv.params.items

\* the first failure ends the execution with that error
StopsAtFirstFailure ==
    /\ \A k \in 1..Len(inv.calls) :
         Failed(inv.calls[k]) =>
            /\ k = Len(inv.calls)
            /\ pc = "done"
            /\ outcome = inv.calls[k].result
    /\ (pc = "done" /\ outcome.kind = "return") =>
         /\ Len(inv.calls) = inv.params.items
         /\ outcome = Returned(<<inv.returnData>>)

ItemLoop ==
    /\ AscendingCalls
    /\ IF inv.params.continueOnFail THEN ContinuesOnFail ELSE StopsAtFirstFailure

\* C22 as stated: executeMega processes the input items in ascending index
\* order, one handler call at a time; with continueOnFail a failure on item i
\* appends one output item with the error message and itemIndex i, paired to
\* item i, and processing goes on with item i+1, for every supported
\* resource/operation pair; without continueOnFail the first failure is
\* thrown again and no later item is processed.
C22_AsStated == Executing => ItemLoop

\* C22, the part that holds: the same for every supported pair other than
\* bucket/list; bucket/list calls handleListBuckets exactly once, for index 0,
\* whatever the number of items, and a failure of it ends the execution with
\* that error whether continueOnFail is enabled or not.
C22_PerItemLoop ==
    Executing =>
        IF SingleExecution(inv.params)
        THEN pc = "done" =>
               /\ Len(inv.calls) = 1
               /\ inv.calls[1].itemIndex = 0
               /\ Failed(inv.calls[1]) => outcome = inv.calls[1].result
               /\ ~Failed(inv.calls[1]) => outcome = Returned(<<inv.calls[1].result.value>>)
        ELSE ItemLoop

\* bucket/list fails with continueOnFail enabled: the error is thrown
C22_ListBucketsThrows ==
    /\ Executing
    /\ SingleExecution(inv.params)
    /\ inv.params.continueOnFail
    /\ inv.params.items = 2
    /\ pc = "done"
    /\ outcome.kind = "Error"
    /\ inv.returnData = <<>>

\* a per-item pair with continueOnFail: item 0 failed, item 1 was processed
C22_Witness ==
    /\ Executing
    /\ ~SingleExecution(inv.params)
    /\ inv.params.continueOnFail
    /\ pc = "done"
    /\ Len(inv.calls) = 2
    /\ Failed(inv.calls[1])
    /\ ~Failed(inv.calls[2])
    /\ IsErrorItemOf(inv.returnData[1], inv.calls[1])

(***************************************************************************)
(* Request bodies: delete-multiple-objects and complete-multipart-upload   *)
(***************************************************************************)
\* String.prototype.trim() of a character string
TrimString(str) == LET t == Trim(Text(str)) IN [i \in 1..Len(t) |-> t[i].n]

\* objectKeysString.split(',').map(trim).filter(length > 0)
ObjectKeysOf(objectKeysString) ==
    LET pieces == Split(objectKeysString, ",")
    IN SelectSeq([i \in 1..Len(pieces) |-> TrimString(pieces[i])], LAMBDA k : k # <<>>)

\* the loop over the keys: the first invalid key ends it
RECURSIVE CheckEachKey(_)
CheckEachKey(keys) ==
    IF keys = <<>> THEN None
    ELSE IF ~validateObjectKey(Head(keys)).valid
    THEN OperationError(<<"Invalid object key '", Head(keys), "': ",
                          validateObjectKey(Head(keys)).error>>)
    ELSE CheckEachKey(Tail(keys))

\* the checks of handleDeleteMultipleObjects, in order
DeleteMultipleObjectsChecks(p) ==
    IF ~validateBucketName(p.bucketName).valid THEN InvalidBucket(p.bucketName)
    ELSE IF ObjectKeysOf(p.objectKeys) = <<>>
    THEN OperationError(<<"No object keys provided for deletion">>)
    ELSE CheckEachKey(ObjectKeysOf(p.objectKeys))

\* objectKeys.map((key) => ({ Key: key }))
KeyEntries(keys) ==
    [i \in 1..Len(keys) |-> ObjV(<<"Key">>, [Key |-> StrV(Text(keys[i]))])]

DeleteXml(keys, quiet) ==
    buildXml(ObjV(<<"Delete">>,
                  [Delete |-> ObjV(<<"Object", "Quiet">>,
                                   [Object |-> ArrV(KeyEntries(keys)),
                                    Quiet |-> BoolV(quiet)])]),
             "Delete")

DeleteName == <<"d", "e", "l", "e", "t", "e">>

DeleteMultipleObjectsRequest(p) ==
    [fn |-> "s3ApiRequest", api |-> "s3",
     options |-> [method |-> "POST", bucket |-> p.bucketName, key |-> <<>>,
                  query |-> << <<DeleteName, <<>> >> >>,
                  headers |-> << <<ContentTypeName, HV("application/xml")>> >>,
                  body |-> DeleteXml(ObjectKeysOf(p.objectKeys), p.quiet),
                  returnFullResponse |-> FALSE]]

ObjectKeysChoices ==
    {<<"a", ",", "b">>, <<"b", ",", "a">>, <<" ", "a", " ", ",", ",", "b", "/", "c">>,
     <<"a">>, <<" ", ",">>, <<"a", ",", "b", "/", "/", "c">>}

DeleteMultipleObjectsParams ==
    [bucketName : {BucketA, <<>>}, objectKeys : ObjectKeysChoices, quiet : BOOLEAN]

\* handleDeleteMultipleObjects up to its await of s3ApiRequest
HandleDeleteMultipleObjects ==
    \E p \in DeleteMultipleObjectsParams :
      LET checks == DeleteMultipleObjectsChecks(p)
      IN /\ StartHandler("handleDeleteMultipleObjects", p, checks, "creds")
         /\ call' = IF checks.kind = "none" THEN DeleteMultipleObjectsRequest(p) ELSE call

BodyNext ==
    \/ HandleDeleteMultipleObjects
    \/ HandleCompleteMultipartUpload
    \/ ListSend
    \/ S3Respond
    \/ TransportFail
    \/ Done

BodySpec == Init /\ [][BodyNext]_vars

DeleteSent == inv.handler = "handleDeleteMultipleObjects" /\ wire # None
CompleteSent == inv.handler = "handleCompleteMultipartUpload" /\ wire # None

\* the document after its XML declaration
DocumentOf(body) == IF body # <<>> /\ Head(body) = Decl THEN Tail(body) ELSE body

\* doc is one element named root
SingleRoot(doc, root) ==
    /\ Len(doc) >= 2
    /\ doc[1] = Open(root)
    /\ doc[Len(doc)] = Close(root)
    /\ TopLevelNames(doc) = <<root>>

\* what stands between the opening and the closing tag of the root
InsideRoot(doc) == SubSeq(doc, 2, Len(doc) - 1)

\* the names of the direct children of the root, in order
ChildNames(doc) == TopLevelNames(InsideRoot(doc))

\* the text of every element named n of doc, in document order
TextsOf(doc, n) ==
    LET starts == SelectSeq([p \in 1..Len(doc) |-> p], LAMBDA p : doc[p] = Open(n))
        EndOf(p) == CHOOSE q \in (p + 1)..Len(doc) :
                        /\ doc[q] = Close(n)
                        /\ \A r \in (p + 1)..(q - 1) : doc[r] # Close(n)
    IN [j \in 1..Len(starts) |-> SubSeq(doc, starts[j] + 1, EndOf(starts[j]) - 1)]

\* a Delete element: one Object child per key, in input order, plus Quiet
IsDeleteElement(doc, keys) ==
    /\ SingleRoot(doc, "Delete")
    /\ Len(ChildNames(doc)) = Len(keys) + 1
    /\ SelectSeq(ChildNames(doc), LAMBDA n : n # "Quiet") = [i \in 1..Len(keys) |-> "Object"]
    /\ TextsOf(doc, "Key") = [i \in 1..Len(keys) |-> Text(keys[i])]

\* a CompleteMultipartUpload element: the Part children in the given order
IsCompleteElement(doc, parts) ==
    /\ SingleRoot(doc, "CompleteMultipartUpload")
    /\ ChildNames(doc) = [i \in 1..Len(parts) |-> "Part"]
    /\ TextsOf(doc, "PartNumber")
         = [i \in 1..Len(parts) |-> Text(NumToStr(Get(parts[i], "PartNumber").v))]
    /\ TextsOf(doc, "ETag")
         = [i \in 1..Len(parts) |-> EncodeEntities(Get(parts[i], "ETag").v)]

\* the root element of doc is the only child of an element of the same name
NestedInSameName(doc, root) ==
    /\ SingleRoot(doc, root)
    /\ ChildNames(doc) = <<root>>

\* C23 as stated: the body of delete-multiple-objects is a single Delete
\* element whose direct children are one Object element per key, in input
\* order, plus Quiet; the body of complete-multipart-upload is a single
\* CompleteMultipartUpload element whose direct children are the Part
\* elements in the given order; in neither body is the root element nested
\* inside another element of the same name.
C23_AsStated ==
    /\ DeleteSent =>
         /\ IsDeleteElement(DocumentOf(wire.body), ObjectKeysOf(inv.params.objectKeys))
         /\ ~NestedInSameName(DocumentOf(wire.body), "Delete")
    /\ CompleteSent =>
         /\ IsCompleteElement(DocumentOf(wire.body), inv.params.parts.value.v)
         /\ ~NestedInSameName(DocumentOf(wire.body), "CompleteMultipartUpload")

\* C23, the part that holds: each body is the XML declaration followed by one
\* root element, and the element described by the claim (Object per key in
\* input order plus Quiet; Part per part in the given order) is the only
\* child of that root, which carries the same name.
C23_BodiesWrappedTwice ==
    /\ DeleteSent =>
         /\ Head(wire.body) = Decl
         /\ NestedInSameName(DocumentOf(wire.body), "Delete")
         /\ IsDeleteElement(InsideRoot(DocumentOf(wire.body)),
                            ObjectKeysOf(inv.params.objectKeys))
    /\ CompleteSent =>
         /\ Head(wire.body) = Decl
         /\ NestedInSameName(DocumentOf(wire.body), "CompleteMultipartUpload")
         /\ IsCompleteElement(InsideRoot(DocumentOf(wire.body)), inv.params.parts.value.v)

\* delete-multiple-objects for keys a and b sends <Delete><Delete>...
C23_DeleteNested ==
    /\ DeleteSent
    /\ pc = "await"
    /\ ObjectKeysOf(inv.params.objectKeys) = << <<"a">>, <<"b">> >>
    /\ SubSeq(wire.body, 1, 3) = <<Decl, Open("Delete"), Open("Delete")>>

\* complete-multipart-upload for two parts sends its root twice as well
C23_CompleteNested ==
    /\ CompleteSent
    /\ pc = "await"
    /\ Len(inv.params.parts.value.v) = 2
    /\ SubSeq(wire.body, 1, 3)
         = <<Decl, Open("CompleteMultipartUpload"), Open("CompleteMultipartUpload")>>

(***************************************************************************)
(* Signing: s3ApiRequest and generatePresignedUrl for queries, keys and    *)
(* headers of every shape                                                  *)
(***************************************************************************)
MaxParams == 2

QueryNames == {<<"a">>, <<"a", "-", "b">>, <<"a", "b">>, <<"a", " ", "b">>, <<"b">>}

\* the lists of up to MaxParams different names, in insertion order
NameLists ==
    UNION {{l \in [1..k -> QueryNames] : \A i, j \in 1..k : i # j => l[i] # l[j]} :
             k \in 1..MaxParams}

QueryChoices ==
    {[i \in 1..Len(l) |-> <<l[i], <<"1">>>>] : l \in NameLists}
    \cup {<< <<<<"a">>, <<>>>>, <<<<"a", "-", "b">>, <<"x", " ", "y">>>> >>,
          << <<<<"b">>, UndefinedValue>>, <<<<"a">>, <<"=">>>> >>}

KeyBang == <<"a", "!", "b">>
KeyPercent == <<"1", "0", "0", "%">>
SignKeyChoices == {KeyPlain, KeySpace, KeyBang, KeyPercent, <<"a", "+", "b">>}

MetaTagUpper == <<"x", "-", "a", "m", "z", "-", "m", "e", "t", "a", "-", "T", "a", "g">>
MetaTagLower == <<"x", "-", "a", "m", "z", "-", "m", "e", "t", "a", "-", "t", "a", "g">>
HostUpper == <<"H", "o", "s", "t">>
AmzDateUpper == <<"X", "-", "A", "m", "z", "-", "D", "a", "t", "e">>

SignHeaderChoices ==
    {NoHeaders,
     << <<ContentTypeName, <<Ws>> \o HV("text/plain") \o <<Ws>>>> >>,
     << <<ContentTypeName, HV("text/plain")>>, <<MetaTagLower, HV("v1")>> >>,
     << <<MetaTagUpper, HV("v1")>>, <<MetaTagLower, HV("v2")>> >>,
     << <<MetaTagLower, HV("v2")>>, <<MetaTagUpper, HV("v1")>> >>,
     << <<HostUpper, HV("other.example.test")>> >>,
     << <<AmzDateUpper, HV("19700101T000000Z")>> >>}

SignOptionChoices ==
    {S3Options("GET", BucketA, KeyPlain, q, NoHeaders, NoBody, FALSE) : q \in QueryChoices}
    \cup {S3Options("GET", BucketA, k, NoQuery, NoHeaders, NoBody, FALSE) :
            k \in SignKeyChoices}
    \cup {S3Options("PUT", BucketA, KeyPlain, NoQuery, h, b, FALSE) :
            h \in SignHeaderChoices, b \in {NoBody, <<"d", "a", "t", "a">>}}

PresignOptionChoices ==
    {[bucket |-> BucketA, key |-> k, method |-> "GET", expiresIn |-> 3600,
      contentType |-> <<>>] : k \in SignKeyChoices}

\* a caller invokes s3ApiRequest; it awaits getMegaCredentials
CallSignedRequest ==
    /\ pc = "idle"
    /\ \E o \in SignOptionChoices :
         call' = [fn |-> "s3ApiRequest", api |-> "s3", options |-> o]
    /\ pc' = "creds"
    /\ UNCHANGED <<inv, creds, wire, presigned, resp, reqOut, outcome,
                   httpCount, signCount, reqHttp>>

\* a caller invokes generatePresignedUrl; it awaits getMegaCredentials
CallGeneratePresignedUrl ==
    /\ pc = "idle"
    /\ \E o \in PresignOptionChoices :
         call' = [fn |-> "generatePresignedUrl", api |-> "presign", options |-> o]
    /\ pc' = "creds"
    /\ UNCHANGED <<inv, creds, wire, presigned, resp, reqOut, outcome,
                   httpCount, signCount, reqHttp>>

\* generatePresignedUrl: credentials arrive, the URL is computed and returned
SignPresign ==
    /\ pc = "creds" /\ call.api = "presign"
    /\ \E c \in ListCredentialChoices, now \in ListTimes :
         /\ creds' = c
         /\ IF CredentialsMissing(c)
            THEN /\ Finish(CredentialsError)
                 /\ UNCHANGED <<presigned, signCount>>
            ELSE /\ presigned' = generatePresignedUrl(call.options, getMegaCredentials(c), now)
                 /\ signCount' = signCount + 1
                 /\ Finish(Returned(presigned'.url))
    /\ UNCHANGED <<inv, call, wire, resp, httpCount, reqHttp>>

SignNext ==
    \/ CallSignedRequest
    \/ CallGeneratePresignedUrl
    \/ ListSend
    \/ SignPresign
    \/ S3Respond
    \/ TransportFail
    \/ Done

SignSpec == Init /\ [][SignNext]_vars

HeaderSigned == call.fn = "s3ApiRequest" /\ wire # None

\* the parameters s3ApiRequest puts into the URL
SentParams ==
    SelectSeq(call.options.query, LAMBDA q : q[2] # UndefinedValue)

\* name=value with name and value percent-encoded independently
PieceOf(q) == uriEncode(q[1], TRUE) \o <<"=">> \o uriEncode(q[2], TRUE)

\* the parameters in lexicographic order of their names
InNameOrder(params) ==
    LET names == SortStrings(Keys(params))
    IN [i \in 1..Len(names) |-> <<names[i], GetKey(params, names[i])>>]

ProperPrefix(a, b) == Len(a) < Len(b) /\ SubSeq(b, 1, Len(a)) = a

PrefixAmongNames(params) ==
    \E i, j \in 1..Len(params) :
        ProperPrefix(uriEncode(params[i][1], TRUE), uriEncode(params[j][1], TRUE))

\* C24 as stated: the canonical query string signed in header mode lists the
\* parameters in lexicographic order of their names, each as name=value with
\* name and value percent-encoded independently, joined with '&', for every
\* set of parameter names (names that are prefixes of other names included).
C24_AsStated ==
    HeaderSigned =>
        wire.canonicalRequest.query
            = Join([i \in 1..Len(SentParams) |-> PieceOf(InNameOrder(SentParams)[i])],
                   <<"&">>)

\* C24, the part that holds: the canonical query string is the name=value
\* pieces, name and value percent-encoded independently, joined with '&' in
\* the order of the whole pieces; that is the order of the names whenever no
\* encoded name is a proper prefix of another.
C24_PiecesSorted ==
    HeaderSigned =>
        LET pieces == [i \in 1..Len(SentParams) |-> PieceOf(SentParams[i])]
            byName == [i \in 1..Len(SentParams) |-> PieceOf(InNameOrder(SentParams)[i])]
            query == wire.canonicalRequest.query
        IN /\ \E order \in [1..Len(pieces) -> 1..Len(pieces)] :
                /\ \A i, j \in 1..Len(pieces) : i # j => order[i] # order[j]
                /\ \A i \in 1..(Len(pieces) - 1) :
                      ~StrLess(pieces[order[i + 1]], pieces[order[i]])
                /\ query = Join([i \in 1..Len(pieces) |-> pieces[order[i]]], <<"&">>)
           /\ ~PrefixAmongNames(SentParams) => query = Join(byName, <<"&">>)

\* parameters a and a-b are signed as a-b=1&a=1
C24_PrefixNameFirst ==
    /\ HeaderSigned
    /\ pc = "await"
    /\ Keys(call.options.query) = << <<"a">>, <<"a", "-", "b">> >>
    /\ wire.canonicalRequest.query
         = <<"a", "-", "b", "=", "1", "&", "a", "=", "1">>

\* the path of the request URL: wire.path up to its first '?'
UrlPath(w) ==
    IF IndexOf(w.path, "?") # 0 THEN SubSeq(w.path, 1, IndexOf(w.path, "?") - 1)
    ELSE w.path

\* the canonical URI generatePresignedUrl signs for the bucket and key of the
\* current call
PresignedUri ==
    generatePresignedUrl([bucket |-> call.options.bucket, key |-> call.options.key,
                          method |-> "GET", expiresIn |-> 3600, contentType |-> <<>>],
                         getMegaCredentials(creds),
                         CHOOSE now \in ListTimes : TRUE).canonicalRequest.uri

\* every character outside the unreserved set encoded once, slashes kept
EncodedOnce(bucket, key) == <<"/">> \o bucket \o <<"/">> \o uriEncode(key, FALSE)

OnlyUnreservedOrSlash(key) == \A i \in 1..Len(key) : key[i] \in Unreserved \cup {"/"}

KeySigned == HeaderSigned /\ call.options.key # <<>>

\* C25 as stated: for the same bucket and object key, the canonical URI signed
\* in header mode equals the canonical URI signed in query mode and equals the
\* path placed in the request URL: each character of the key outside the
\* unreserved set is percent-encoded exactly once, and slashes are preserved.
C25_AsStated ==
    KeySigned =>
        /\ wire.canonicalRequest.uri = PresignedUri
        /\ wire.canonicalRequest.uri = UrlPath(wire)
        /\ wire.canonicalRequest.uri = EncodedOnce(call.options.bucket, call.options.key)

\* C25, the part that holds: the path of the request URL and the canonical
\* URI of query mode are the same string, the key encoded segment by segment
\* with encodeURIComponent; the canonical URI of header mode is that path
\* percent-encoded once more; the three are equal, and equal to the key with
\* nothing to encode, exactly for keys of unreserved characters and slashes.
C25_UriEncodings ==
    /\ KeySigned =>
         /\ UrlPath(wire) = PresignedUri
         /\ wire.canonicalRequest.uri = uriEncode(UrlPath(wire), FALSE)
         /\ OnlyUnreservedOrSlash(call.options.key) =>
               /\ wire.canonicalRequest.uri = UrlPath(wire)
               /\ UrlPath(wire) = <<"/">> \o call.options.bucket \o <<"/">> \o call.options.key
         /\ ~OnlyUnreservedOrSlash(call.options.key) =>
               wire.canonicalRequest.uri # UrlPath(wire)
    /\ (call.fn = "generatePresignedUrl" /\ presigned # None) =>
         presigned.canonicalRequest.uri = presigned.url.path

\* the key 'a b/c' is requested as a%20b/c and signed as a%2520b/c
C25_SignedTwiceEncoded ==
    /\ KeySigned
    /\ pc = "await"
    /\ call.options.key = KeySpace
    /\ UrlPath(wire) = <<"/">> \o BucketA \o <<"/", "a", "%", "2", "0", "b", "/", "c">>
    /\ wire.canonicalRequest.uri
         = <<"/">> \o BucketA \o <<"/", "a", "%", "2", "5", "2", "0", "b", "/", "c">>
    /\ PresignedUri = UrlPath(wire)

\* the headers of the signed result other than authorization
SignedResultHeaders(w) == SelectSeq(w.headers, LAMBDA h : h[1] # AuthorizationName)

\* the lower-cased names of the headers hs, as a list in the order of hs
LowerNames(hs) == [i \in 1..Len(hs) |-> ToLower(hs[i][1])]

\* list b is list a in ascending order
IsSortingOf(b, a) ==
    /\ Len(b) = Len(a)
    /\ \A i \in 1..(Len(b) - 1) : ~StrLess(b[i + 1], b[i])
    /\ \A x \in {a[i] : i \in 1..Len(a)} \cup {b[i] : i \in 1..Len(b)} :
          Cardinality({i \in 1..Len(a) : a[i] = x})
              = Cardinality({i \in 1..Len(b) : b[i] = x})

\* t is v without the white space at its two ends
IsTrimOf(t, v) ==
    /\ t = <<>> \/ (t[1].k # "ws" /\ t[Len(t)].k # "ws")
    /\ \E i \in 1..(Len(v) + 1), j \in 0..Len(v) :
          /\ t = SubSeq(v, i, j)
          /\ \A k \in 1..Len(v) : (k < i \/ k > j) => v[k].k = "ws"

\* the SignedHeaders value of the authorization header of the result
SignedHeadersOf(w) == GetKey(w.headers, AuthorizationName)[1].v.signedHeaders

\* C26: in header mode the signed result always contains host, x-amz-date,
\* x-amz-content-sha256 and authorization in addition to the caller's headers,
\* and the SignedHeaders value of authorization is the sorted, semicolon-joined
\* list of the lower-cased names of all headers of the result other than
\* authorization, matching line for line the canonical headers block, whose
\* lines are a lower-cased name, a colon and the trimmed value of a header of
\* that name.
C26_SignedHeaders ==
    HeaderSigned =>
        LET others == SignedResultHeaders(wire)
            block == wire.canonicalRequest.headers
            listed == [i \in 1..Len(block) |-> block[i][1]]
        IN /\ \A n \in {HostName, AmzDateName, AmzShaName, AuthorizationName} :
                HasKey(wire.headers, n)
           /\ \A i \in 1..Len(S3Headers(call.options)) :
                HasKey(wire.headers, S3Headers(call.options)[i][1])
           /\ IsSortingOf(listed, LowerNames(others))
           /\ SignedHeadersOf(wire) = Join(listed, <<";">>)
           /\ wire.canonicalRequest.signedHeaders = SignedHeadersOf(wire)
           /\ \A i \in 1..Len(block) :
                /\ block[i][2] = ":"
                /\ \E j \in 1..Len(others) :
                     /\ ToLower(others[j][1]) = block[i][1]
                     /\ IsTrimOf(block[i][3], others[j][2])

\* a PUT with a body and a Content-Type value with white space around it:
\* five headers are signed and the value is signed without the white space
C26_Witness ==
    /\ HeaderSigned
    /\ pc = "await"
    /\ call.options.headers = << <<ContentTypeName, <<Ws>> \o HV("text/plain") \o <<Ws>>>> >>
    /\ call.options.body # <<>>
    /\ SignedHeadersOf(wire)
         = ToLower(ContentLengthName) \o <<";">> \o ToLower(ContentTypeName) \o <<";">>
           \o HostName \o <<";">> \o AmzShaName \o <<";">> \o AmzDateName
    /\ wire.canonicalRequest.headers[2]
         = <<ToLower(ContentTypeName), ":", HV("text/plain")>>

(***************************************************************************)
(* handlePutObject: the headers of an upload with user metadata            *)
(***************************************************************************)
MetaPrefix == <<"x", "-", "a", "m", "z", "-", "m", "e", "t", "a", "-">>

\* the checks of handlePutObject, in order
PutObjectChecks(p) ==
    IF ~validateBucketName(p.bucketName).valid THEN InvalidBucket(p.bucketName)
    ELSE IF ~validateObjectKey(p.objectKey).valid THEN InvalidKey(p.objectKey)
    ELSE None

\* the loop over metadataValues: items without key or value are skipped
RECURSIVE MetadataHeaders(_, _)
MetadataHeaders(headers, items) ==
    IF items = <<>> THEN headers
    ELSE MetadataHeaders(
            IF Head(items).key # <<>> /\ Head(items).value # ""
            THEN SetKey(headers, MetaPrefix \o Head(items).key, HV(Head(items).value))
            ELSE headers,
            Tail(items))

\* Content-Type when there is one, then the metadata headers
PutObjectHeaders(p, contentType) ==
    MetadataHeaders(IF contentType # "" THEN << <<ContentTypeName, HV(contentType)>> >>
                    ELSE <<>>,
                    p.metadataValues)

PutObjectRequest(p, body, contentType) ==
    [fn |-> "s3ApiRequestRaw", api |-> "s3",
     options |-> [method |-> "PUT", bucket |-> p.bucketName, key |-> p.objectKey,
                  query |-> <<>>, headers |-> PutObjectHeaders(p, contentType),
                  body |-> body, returnFullResponse |-> TRUE]]

\* x || y for two strings
StringOr(x, y) == IF x # "" THEN x ELSE y

MetadataChoices ==
    {<<>>,
     <<[key |-> <<"T", "a", "g">>, value |-> "v1"], [key |-> <<"t", "a", "g">>, value |-> "v2"]>>,
     <<[key |-> <<"t", "a", "g">>, value |-> "v2"], [key |-> <<"T", "a", "g">>, value |-> "v1"]>>,
     <<[key |-> <<"t", "a", "g">>, value |-> "v1"], [key |-> <<"o", "w", "n", "e", "r">>, value |-> "v2"]>>,
     <<[key |-> <<>>, value |-> "v1"], [key |-> <<"t", "a", "g">>, value |-> ""]>>}

PutObjectParams ==
    [bucketName : {BucketA, BucketUpper}, objectKey : {KeyPlain},
     binaryData : BOOLEAN, textData : {<<"d", "a", "t", "a">>},
     contentType : {"", "text/csv"}, metadataValues : MetadataChoices]

PutBinaryChoices ==
    {[present |-> FALSE],
     [present |-> TRUE, buffer |-> <<"d", "a", "t", "a">>, mimeType |-> ""],
     [present |-> TRUE, buffer |-> <<"d", "a", "t", "a">>, mimeType |-> "image/png"]}

\* handlePutObject up to its first await: getBinaryDataBuffer for binary
\* data, s3ApiRequestRaw for text data
HandlePutObject ==
    \E p \in PutObjectParams :
      LET checks == PutObjectChecks(p)
      IN /\ StartHandler("handlePutObject", p, checks,
                         IF p.binaryData THEN "putBinary" ELSE "creds")
         /\ call' = IF checks.kind = "none" /\ ~p.binaryData
                    THEN PutObjectRequest(p, p.textData, StringOr(p.contentType, "text/plain"))
                    ELSE call

\* getBinaryDataBuffer resolves with the buffer and its MIME type, or throws;
\* with the buffer the handler calls s3ApiRequestRaw
PutObjectGetBinary ==
    /\ pc = "putBinary"
    /\ \E d \in PutBinaryChoices :
         IF d.present
         THEN /\ inv' = [handler |-> inv.handler, params |-> inv.params, binary |-> d]
              /\ call' = PutObjectRequest(inv.params, d.buffer,
                                          StringOr(d.mimeType, inv.params.contentType))
              /\ pc' = "creds"
              /\ outcome' = outcome
         ELSE /\ outcome' = OperationError(<<"This operation expects binary data">>)
              /\ pc' = "done"
              /\ UNCHANGED <<inv, call>>
    /\ UNCHANGED <<creds, wire, presigned, resp, reqOut, httpCount, signCount, reqHttp>>

PutNext ==
    \/ HandlePutObject
    \/ PutObjectGetBinary
    \/ CallSignedRequest
    \/ ListSend
    \/ S3Respond
    \/ TransportFail
    \/ Done

PutSpec == Init /\ [][PutNext]_vars

\* the request was signed in header mode, by s3ApiRequest itself or for
\* s3ApiRequestRaw
RequestSigned == call.api = "s3" /\ wire # None

\* two headers of the signed result differ only by letter case
CaseOnlyDifference(w) ==
    \E i, j \in 1..Len(w.headers) :
        /\ i # j
        /\ ToLower(w.headers[i][1]) = ToLower(w.headers[j][1])

\* each header name is listed once
ListedOnce(w) ==
    LET block == w.canonicalRequest.headers
    IN /\ \A i, j \in 1..Len(block) : i # j => block[i][1] # block[j][1]
       /\ w.canonicalRequest.signedHeaders
            = Join([i \in 1..Len(block) |-> block[i][1]], <<";">>)

\* every header sent, authorization apart, has a line with its own value
SignedWithOwnValue(w) ==
    \A i \in 1..Len(w.headers) :
        w.headers[i][1] # AuthorizationName =>
            \E l \in 1..Len(w.canonicalRequest.headers) :
                /\ w.canonicalRequest.headers[l][1] = ToLower(w.headers[i][1])
                /\ IsTrimOf(w.canonicalRequest.headers[l][3], w.headers[i][2])

\* C27 as stated: each header name appears at most once in SignedHeaders and
\* in the canonical headers block, and every header sent with the request is
\* signed with its own value, even when caller-supplied header names differ
\* only by letter case from one another or from host, x-amz-date or
\* x-amz-content-sha256.
C27_AsStated == RequestSigned => (ListedOnce(wire) /\ SignedWithOwnValue(wire))

\* C27, the part that holds: when no two headers of the request differ only
\* by letter case, each name is listed once and every header is signed with
\* its own value; when two do, the name is listed once per header and each of
\* its lines carries the value of the header that comes first.
C27_DistinctNamesSigned ==
    RequestSigned =>
        /\ ~CaseOnlyDifference(wire) => (ListedOnce(wire) /\ SignedWithOwnValue(wire))
        /\ CaseOnlyDifference(wire) => (~ListedOnce(wire) /\ ~SignedWithOwnValue(wire))

\* an upload with the metadata keys Tag and tag: x-amz-meta-tag is listed
\* twice, both times with the value of x-amz-meta-Tag
C27_MetadataCase ==
    /\ RequestSigned
    /\ inv.handler = "handlePutObject"
    /\ pc = "await"
    /\ HasKey(wire.headers, MetaTagUpper) /\ GetKey(wire.headers, MetaTagUpper) = HV("v1")
    /\ HasKey(wire.headers, MetaTagLower) /\ GetKey(wire.headers, MetaTagLower) = HV("v2")
    /\ Cardinality({l \in 1..Len(wire.canonicalRequest.headers) :
                      wire.canonicalRequest.headers[l] = <<MetaTagLower, ":", HV("v1")>>}) = 2
    /\ Cardinality({l \in 1..Len(wire.canonicalRequest.headers) :
                      wire.canonicalRequest.headers[l][1] = MetaTagLower}) = 2

(***************************************************************************)
(* Object listing with returnAll: the pages and their tokens               *)
(***************************************************************************)
\* the promise of httpRequest settles: it rejects or it resolves
ListSettles == TransportFail \/ ListRespond

\* the event loop runs every pending continuation: an awaited credentials
\* lookup resumes s3ApiRequest, and a pending HTTP request settles
ListLiveSpec ==
    Init /\ [][ListNext]_vars /\ WF_vars(ListSend) /\ WF_vars(ListSettles)

ListingAll == Listing /\ inv.params.returnAll

\* the characters of a text of tokens
CharsOf(text) == [i \in 1..Len(text) |-> text[i].n]

\* the NextContinuationToken of a response body, <<>> when it has none
TokenIn(body) ==
    IF TextsOf(body, "NextContinuationToken") = <<>> THEN <<>>
    ELSE CharsOf(TextsOf(body, "NextContinuationToken")[1])

\* the continuation-token of a parameter list, <<>> when it has none
TokenParam(params) ==
    IF HasKey(params, ContinuationTokenName) THEN GetKey(params, ContinuationTokenName)
    ELSE <<>>

\* the parameters a server reads from the URL of the request
UrlParams(w) ==
    IF IndexOf(w.path, "?") = 0 THEN <<>>
    ELSE ParseQueryString(SubSeq(w.path, IndexOf(w.path, "?") + 1, Len(w.path)))

PageReceived == resp.kind = "response" /\ resp.statusCode < 400

\* the token of the page received last; the first request follows no page
PreviousToken == IF PageReceived THEN TokenIn(resp.body) ELSE <<>>

\* a request is on its way: it carries the token of the previous page
FollowsToken ==
    (ListingAll /\ pc \in {"creds", "await"}) =>
        /\ resp.kind \in {"none", "response"}
        /\ TokenParam(call.options.query) = PreviousToken
        /\ pc = "await" => TokenParam(UrlParams(wire)) = PreviousToken
        /\ (resp.kind = "response") => PreviousToken # <<>>

\* a page without token ends the listing, and only such a page does
StopsWithoutToken ==
    /\ (ListingAll /\ PageReceived /\ TokenIn(resp.body) = <<>>) =>
          (pc = "done" /\ outcome.kind = "return")
    /\ (ListingAll /\ pc = "done" /\ outcome.kind = "return") =>
          /\ PageReceived /\ TokenIn(resp.body) = <<>>
          /\ outcome.value = inv.objects

KeysOfObjects(objects) == [i \in 1..Len(objects) |-> objects[i].key.v]

\* a page arrives: its objects are appended, in their order
PageAppended ==
    (ListingAll /\ pc = "await" /\ resp'.kind = "response" /\ resp'.statusCode < 400) =>
        /\ Len(inv'.objects) = Len(inv.objects) + Len(TextsOf(resp'.body, "Key"))
        /\ SubSeq(inv'.objects, 1, Len(inv.objects)) = inv.objects
        /\ KeysOfObjects(inv'.objects)
             = KeysOfObjects(inv.objects) \o TextsOf(resp'.body, "Key")

\* a listing starts with no objects
StartsEmpty == (ListingAll /\ httpCount = 0) => inv.objects = <<>>

\* C28: object listing with returnAll sends each follow-up request with the
\* continuation-token equal to the NextContinuationToken of the previous
\* response, stops after the first response without NextContinuationToken and
\* issues no request after it, returns the objects of all pages concatenated
\* in page order, and terminates when the server eventually sends a response
\* without a token.
C28_ReturnAllPages ==
    /\ [](FollowsToken /\ StopsWithoutToken /\ StartsEmpty)
    /\ [][PageAppended]_vars
    /\ (ListingAll ~> pc = "done")

\* three pages: the third request carried the token of the second page, the
\* third page had no token, and five objects were returned in page order
C28_Witness ==
    /\ ListingAll /\ pc = "done"
    /\ httpCount = 3
    /\ TokenParam(call.options.query) = <<"1", "+", "/", "=">>
    /\ TokenParam(UrlParams(wire)) = <<"1", "+", "/", "=">>
    /\ PageReceived /\ resp.body = ListBody(2, <<>>)
    /\ outcome.kind = "return"
    /\ Len(outcome.value) = 5
    /\ KeysOfObjects(outcome.value)
         = <<Text(<<"k", "1">>), Text(<<"k", "2">>), Text(<<"k", "3">>),
             Text(<<"k", "1">>), Text(<<"k", "2">>)>>

(***************************************************************************)
(* The decoder: which elements give a node its keys                        *)
(***************************************************************************)
\* the number of entries value holds under name n
EntriesUnder(value, n) ==
    CASE Get(value, n).t = "undefined" -> 0
      [] Get(value, n).t = "arr" -> Len(Get(value, n).v)
      [] OTHER -> 1

RECURSIVE KeysFromChildren(_, _)

\* value is the node of element e: each key is the name of a direct child,
\* a name holds no more entries than e has children of that name, and the
\* same holds for the node of every child element
KeysFromChildren(value, e) ==
    (e.kind = "elem" /\ value.t = "obj") =>
        /\ \A i \in 1..Len(value.keys) : value.keys[i] \in KidNames(e)
        /\ \A n \in KidNames(e) : EntriesUnder(value, n) <= Len(KidsNamed(e.kids, n))
        /\ \A j \in 1..Len(e.kids) :
             LET k == e.kids[j]
                 got == Get(value, k.n)
                 mine == IF got.t = "arr"
                         THEN IF RankAmongSame(e, j) <= Len(got.v)
                              THEN got.v[RankAmongSame(e, j)] ELSE Undefined
                         ELSE got
             IN  KeysFromChildren(mine, k)

\* a self-closing tag stands below a child of e, or below a child of one of
\* the elements under e
RECURSIVE SelfTagDeeper(_)
SelfTagDeeper(e) ==
    /\ e.kind = "elem"
    /\ \E j \in 1..Len(e.kids) :
         /\ e.kids[j].kind = "elem"
         /\ (SelfNames(e.kids[j]) # {} \/ SelfTagDeeper(e.kids[j]))

\* C29 as stated: in the structure the decoder returns, the node of an
\* element has a key only for the tag names of its direct children; elements
\* nested deeper, self-closing ones included, add no key and no sequence
\* entry to the node of an ancestor.
C29_AsStated ==
    ParsedTree => KeysFromChildren(Get(reqOut.value, RootName), call.options.tree)

\* C29, the part the code keeps: in a document where no self-closing tag
\* stands deeper than the children of the root, no open/close pair carries
\* the name of a self-closing tag and no element nests an element of its own
\* name, every node has keys only for its direct children, and no more
\* entries under a name than children of that name.
C29_PairedChildrenOnly ==
    (ParsedTree /\ ~SelfTagDeeper(call.options.tree)
                /\ SelfNames(call.options.tree) \cap PairedNames(call.options.tree) = {}
                /\ ~NestsOwnName(call.options.tree))
        => KeysFromChildren(Get(reqOut.value, RootName), call.options.tree)

\* every document with a self-closing tag below a child of the root gives
\* the root's node an entry that no child of the root accounts for
C29_DeeperSelfTagLeaks ==
    (ParsedTree /\ SelfTagDeeper(call.options.tree))
        => ~KeysFromChildren(Get(reqOut.value, RootName), call.options.tree)

\* <Root><Key><Item/></Key></Root> has been decoded: the root's node has the
\* key Item although Item is a child of Key
C29_GrandchildKey ==
    /\ ParsedTree
    /\ call.options.tree = Elem(RootName, <<Elem("Key", <<SelfTag("Item")>>)>>)
    /\ Get(Get(reqOut.value, RootName), "Item") = StrV(<<>>)
    /\ "Item" \notin KidNames(call.options.tree)

\* <Root><Key><Item>a</Item></Key><Item>b</Item></Root> has been decoded: the
\* Item below Key is no entry of the root's node
C29_Witness ==
    /\ ParsedTree
    /\ call.options.tree =
         Elem(RootName, <<Elem("Key", <<Leaf("Item", <<"a">>)>>), Leaf("Item", <<"b">>)>>)
    /\ Get(Get(reqOut.value, RootName), "Item") = StrV(Text(<<"b">>))
    /\ Get(Get(Get(reqOut.value, RootName), "Key"), "Item") = StrV(Text(<<"a">>))

(***************************************************************************)
(* Handlers that answer "not found" with a result: handleDetachUserPolicy, *)
(* handleDetachGroupPolicy and handleDeleteBucketPolicy                    *)
(***************************************************************************)
\* [\w+=,.@-]
IamNameChars ==
    LowerAlpha \cup UpperAlpha \cup Digits \cup {"_", "+", "=", ",", ".", "@", "-"}

\* /^[\w+=,.@-]+$/
namePattern(name) ==
    name # <<>> /\ \A j \in 1..Len(name) : name[j] \in IamNameChars

validateIAMName(name, type) ==
    IF name = <<>> THEN Invalid(<<type, " name cannot be empty">>)
    ELSE IF Len(name) < 1 \/ Len(name) > 128
    THEN Invalid(<<type, " name must be between 1 and 128 characters long">>)
    ELSE IF ~namePattern(name)
    THEN Invalid(<<"Invalid ", type, " name format. Allowed characters: alphanumeric, plus (+), equals (=), comma (,), period (.), at (@), underscore (_), hyphen (-)">>)
    ELSE Valid

ArnPrefix == <<"a", "r", "n", ":", "a", "w", "s", ":", "i", "a", "m", ":", ":">>
PolicyInfix == <<":", "p", "o", "l", "i", "c", "y", "/">>

\* s from position n on
From(s, n) == SubSeq(s, n, Len(s))

HasPrefix(s, p) == Len(s) >= Len(p) /\ SubSeq(s, 1, Len(p)) = p

\* [\w+=,.@-]+(\/[\w+=,.@-]+)*
IsPolicyPath(s) ==
    /\ s # <<>>
    /\ \A j \in 1..Len(s) : s[j] \in IamNameChars \cup {"/"}
    /\ s[1] # "/" /\ s[Len(s)] # "/"
    /\ \A j \in 1..(Len(s) - 1) : ~(s[j] = "/" /\ s[j + 1] = "/")

\* /^arn:aws:iam::(\d{12}|aws):policy\/[\w+=,.@-]+(\/[\w+=,.@-]+)*$/
arnPattern(arn) ==
    /\ HasPrefix(arn, ArnPrefix)
    /\ LET rest == From(arn, Len(ArnPrefix) + 1)
       IN  \/ /\ Len(rest) >= 12
              /\ \A j \in 1..12 : rest[j] \in Digits
              /\ HasPrefix(From(rest, 13), PolicyInfix)
              /\ IsPolicyPath(From(rest, 13 + Len(PolicyInfix)))
           \/ /\ HasPrefix(rest, <<"a", "w", "s">>)
              /\ HasPrefix(From(rest, 4), PolicyInfix)
              /\ IsPolicyPath(From(rest, 4 + Len(PolicyInfix)))

validatePolicyArn(arn) ==
    IF arn = <<>> THEN Invalid(<<"Policy ARN cannot be empty">>)
    ELSE IF ~arnPattern(arn)
    THEN Invalid(<<"Invalid Policy ARN format. Expected: arn:aws:iam::account-id:policy/policy-name">>)
    ELSE Valid

\* the checks of a detach handler, in order: the first one that fails
DetachPolicyChecks(name, type, policyArn) ==
    IF ~validateIAMName(name, type).valid
    THEN OperationError(<<"Invalid ", type, " name: ", validateIAMName(name, type).error>>)
    ELSE IF ~validatePolicyArn(policyArn).valid
    THEN OperationError(<<"Invalid policy ARN: ", validatePolicyArn(policyArn).error>>)
    ELSE None

\* parameters of the handlers
Alice == <<"a", "l", "i", "c", "e">>
NameWithSpace == <<"a", " ", "b">>
ArnManaged == ArnPrefix \o <<"a", "w", "s">> \o PolicyInfix \o <<"R", "e", "a", "d">>
ArnAccount == ArnPrefix \o [j \in 1..12 |-> "1"] \o PolicyInfix \o <<"p", "/", "q">>
ArnShortAccount == ArnPrefix \o [j \in 1..11 |-> "1"] \o PolicyInfix \o <<"p">>
ArnEmptySegment == ArnPrefix \o <<"a", "w", "s">> \o PolicyInfix \o <<"p", "/", "/", "q">>

IamNameChoices == {Alice, NameWithSpace, <<>>, [j \in 1..128 |-> "a"], [j \in 1..129 |-> "a"]}
PolicyArnChoices == {ArnManaged, ArnAccount, ArnShortAccount, ArnEmptySegment, <<>>}

DetachUserPolicyParams == [userName : IamNameChoices, policyArn : PolicyArnChoices]
DetachGroupPolicyParams == [groupName : IamNameChoices, policyArn : PolicyArnChoices]
DeleteBucketPolicyParams == [bucketName : {BucketA, BucketIp}]

\* handleDetachUserPolicy up to its await of iamApiRequest
HandleDetachUserPolicy ==
    \E p \in DetachUserPolicyParams :
      LET checks == DetachPolicyChecks(p.userName, "user", p.policyArn)
      IN /\ StartHandler("handleDetachUserPolicy", p, checks, "creds")
         /\ call' = IF checks.kind = "none"
                    THEN [fn |-> "iamApiRequest", api |-> "iam",
                          options |-> IamOptions("DetachUserPolicy",
                                          << <<"UserName", p.userName>>,
                                             <<"PolicyArn", p.policyArn>> >>)]
                    ELSE call

\* handleDetachGroupPolicy up to its await of iamApiRequest
HandleDetachGroupPolicy ==
    \E p \in DetachGroupPolicyParams :
      LET checks == DetachPolicyChecks(p.groupName, "group", p.policyArn)
      IN /\ StartHandler("handleDetachGroupPolicy", p, checks, "creds")
         /\ call' = IF checks.kind = "none"
                    THEN [fn |-> "iamApiRequest", api |-> "iam",
                          options |-> IamOptions("DetachGroupPolicy",
                                          << <<"GroupName", p.groupName>>,
                                             <<"PolicyArn", p.policyArn>> >>)]
                    ELSE call

\* handleDeleteBucketPolicy up to its await of s3ApiRequest
HandleDeleteBucketPolicy ==
    \E p \in DeleteBucketPolicyParams :
      LET checks == IF ~validateBucketName(p.bucketName).valid
                    THEN InvalidBucket(p.bucketName) ELSE None
      IN /\ StartHandler("handleDeleteBucketPolicy", p, checks, "creds")
         /\ call' = IF checks.kind = "none"
                    THEN [fn |-> "s3ApiRequest", api |-> "s3",
                          options |-> S3Options("DELETE", p.bucketName, <<>>,
                                                << <<PolicyName, <<>>>> >>,
                                                NoHeaders, NoBody, FALSE)]
                    ELSE call

\* iamApiRequest of a handler: credentials arrive, the request is built,
\* signed and handed to httpRequest
PolicyIamSend ==
    /\ pc = "creds" /\ call.api = "iam"
    /\ \E c \in ListCredentialChoices, now \in ListTimes :
         /\ creds' = c
         /\ IF CredentialsMissing(c)
            THEN /\ Finish(CredentialsError)
                 /\ UNCHANGED <<wire, httpCount, signCount, reqHttp>>
            ELSE /\ wire' = IamRequestOptions(call.options, getMegaCredentials(c), now)
                 /\ signCount' = signCount + 1
                 /\ httpCount' = httpCount + 1
                 /\ reqHttp' = reqHttp + 1
                 /\ pc' = "await"
                 /\ UNCHANGED <<reqOut, outcome>>
    /\ UNCHANGED <<inv, call, presigned, resp>>

IamErrorBody(code, message) ==
    <<Open("ErrorResponse")>> \o ErrorBody(code, message) \o <<Close("ErrorResponse")>>

\* what the servers answer: nothing, a page of text, error documents of
\* both services (one of them quoting a name in its message), a result
PolicyBodies ==
    { <<>>,
      Text(<<"404", " page not found">>),
      ErrorBody(<<"NoSuchBucketPolicy">>, <<"no policy">>),
      ErrorBody(<<"NoSuchBucket">>, <<"gone">>),
      ErrorBody(<<"AccessDenied">>, <<"no">>),
      IamErrorBody(<<"NoSuchEntity">>, <<"not attached">>),
      IamErrorBody(<<"AccessDenied">>, <<"no">>),
      IamErrorBody(<<"AccessDenied">>, <<"not allowed on policy ", "NoSuchEntity">>),
      <<Open("Response"), Close("Response")>> }

PolicyStatuses == {200, 204, 403, 404, 500}

\* the response to the request of a policy handler arrives
PolicyS3Respond ==
    /\ pc = "await" /\ call.api = "s3"
    /\ \E st \in PolicyStatuses, b \in PolicyBodies :
         /\ resp' = [kind |-> "response", statusCode |-> st, body |-> b,
                     headers |-> NoHeaders]
         /\ Finish(TryRequest(S3HandleResponse(call.options, resp'),
                              "Mega S4 operation failed: "))
    /\ UNCHANGED <<inv, call, creds, wire, presigned, httpCount, signCount, reqHttp>>

PolicyIamRespond ==
    /\ pc = "await" /\ call.api = "iam"
    /\ \E st \in PolicyStatuses, b \in PolicyBodies :
         /\ resp' = [kind |-> "response", statusCode |-> st, body |-> b,
                     headers |-> NoHeaders]
         /\ Finish(TryRequest(IamHandleResponse(resp'),
                              "Mega S4 IAM operation failed: "))
    /\ UNCHANGED <<inv, call, creds, wire, presigned, httpCount, signCount, reqHttp>>

PolicyNext ==
    \/ HandleDetachUserPolicy
    \/ HandleDetachGroupPolicy
    \/ HandleDeleteBucketPolicy
    \/ PolicyIamSend
    \/ ListSend
    \/ PolicyIamRespond
    \/ PolicyS3Respond
    \/ TransportFail
    \/ Done

PolicySpec == Init /\ [][PolicyNext]_vars

Detaching == inv.handler \in {"handleDetachUserPolicy", "handleDetachGroupPolicy"}
DeletingPolicy == inv.handler = "handleDeleteBucketPolicy"

\* the request function of the invocation has thrown
RequestThrew == pc = "done" /\ (Detaching \/ DeletingPolicy) /\ IsThrow(reqOut)

\* the handler answered the error with a result
Converted == RequestThrew /\ outcome.kind = "return"

\* the error is an API error that names the code
ReportsCode(error, code) ==
    error.kind = "NodeApiError" /\ error.code = StrV(Text(<<code>>))

\* the request functions hand every failure to the handler as an error
RequestsNeverConvert ==
    (pc = "done" /\ (Detaching \/ DeletingPolicy) /\ resp # None
       /\ (resp.kind = "failure" \/ resp.statusCode >= 400))
        => /\ IsThrow(reqOut)
           /\ (resp.kind = "response") =>
                 /\ reqOut.kind = "NodeApiError"
                 /\ reqOut.httpCode = ToString(resp.statusCode)
           /\ (resp.kind = "failure") => reqOut.kind = "NodeOperationError"

\* C30 as stated: the detach handlers give a success result for an API error
\* reporting NoSuchEntity, handleDeleteBucketPolicy for an API error reporting
\* that no bucket policy exists; every other error is re-thrown unchanged.
C30_AsStated ==
    RequestThrew =>
        IF \/ Detaching /\ ReportsCode(reqOut, "NoSuchEntity")
           \/ DeletingPolicy /\ ReportsCode(reqOut, "NoSuchBucketPolicy")
        THEN outcome.kind = "return" /\ outcome.value.success
        ELSE outcome = reqOut

\* C30, what the code does: the request functions hand every failure on as
\* an error; a detach handler gives a success result exactly when the
\* message of the error holds NoSuchEntity, handleDeleteBucketPolicy exactly
\* when it holds NoSuchBucketPolicy or 404, and every other error is
\* re-thrown unchanged.  An API error with the code in question is always
\* among the converted ones.
C30_ConvertsOnMessage ==
    /\ RequestsNeverConvert
    /\ RequestThrew =>
         /\ IF \/ Detaching /\ Includes(ErrorMessage(reqOut), "NoSuchEntity")
               \/ DeletingPolicy /\ Includes(ErrorMessage(reqOut), "NoSuchBucketPolicy")
               \/ DeletingPolicy /\ Includes(ErrorMessage(reqOut), "404")
            THEN outcome.kind = "return" /\ outcome.value.success
            ELSE outcome = reqOut
         /\ (Detaching /\ ReportsCode(reqOut, "NoSuchEntity")) => Converted
         /\ (DeletingPolicy /\ ReportsCode(reqOut, "NoSuchBucketPolicy")) => Converted

\* the server answered the deletion of a bucket policy with 404 and a page
\* of text: no code was reported, and the handler gave a success result
C30_PlainNotFound ==
    /\ DeletingPolicy /\ Converted
    /\ resp.statusCode = 404
    /\ resp.body = Text(<<"404", " page not found">>)
    /\ ReportsCode(reqOut, "UnknownError")
    /\ outcome.value.success

\* an API error with the code AccessDenied whose message quotes NoSuchEntity
\* was answered with a success result by a detach handler
C30_OtherCodeConverted ==
    /\ Detaching /\ Converted
    /\ ReportsCode(reqOut, "AccessDenied")

\* an API error of code NoSuchEntity was answered with a success result by
\* handleDetachGroupPolicy
C30_Witness ==
    /\ inv.handler = "handleDetachGroupPolicy" /\ Converted
    /\ ReportsCode(reqOut, "NoSuchEntity")
    /\ outcome.value.groupName = Alice

=============================================================================
